---- MODULE Spec2Model ----
(***************************************************************************)
(* Model of the flight rescheduler's conflict-detection and reschedule     *)
(* engine (convex/weather.ts, convex/conflicts.ts, convex/reschedule.ts,   *)
(* convex/bookings.ts).                                                    *)
(*                                                                         *)
(* Every Convex query and mutation is one atomic step (Convex runs them    *)
(* as serializable transactions); every Convex action is a process whose   *)
(* steps are the queries and mutations it awaits, so that other functions  *)
(* interleave between them.                                                *)
(*                                                                         *)
(* Time is counted in ticks of 30 minutes.  Distances are whole miles,     *)
(* speeds whole knots, temperatures whole degrees (conversions floor).     *)
(***************************************************************************)
EXTENDS Integers, Sequences, FiniteSets, TLC

\* ----- bounds of the model -----
MaxTime == 1
MaxSweepTime == 2
MaxWeather == 2
MaxConflicts == 2
MaxOptionSets == 2
MaxAudit == 2

\* ----- program constants, in ticks of 30 minutes -----
HOUR == 2
DAY == 24 * HOUR
WEATHER_CACHE_TTL_MS == 1
WINDOW_48H == 48 * HOUR

\* JavaScript's undefined and NaN, as values outside the numeric ranges used
Undefined == 0 - 1
NaN == 0 - 2

Truthy(x) == x # Undefined /\ x # NaN /\ x # 0

BookingIds == {1, 2}
TrainingLevels == {"student-pilot", "private-pilot", "instrument-rated"}

\* ===== convex/conflicts.ts: minimums table and rule evaluator =====

\* the table with thunderstorms allowed to instrument-rated pilots
WEATHER_MINIMUMS_ThunderstormsIFR ==
  [ l \in TrainingLevels |->
      CASE l = "student-pilot" ->
             [minVisibility |-> 5, minCeiling |-> Undefined, maxWindSpeed |-> 10,
              requiresClearSkies |-> TRUE, allowIMC |-> FALSE,
              allowThunderstorms |-> FALSE, allowIcing |-> FALSE]
        [] l = "private-pilot" ->
             [minVisibility |-> 3, minCeiling |-> 1000, maxWindSpeed |-> 15,
              requiresClearSkies |-> FALSE, allowIMC |-> FALSE,
              allowThunderstorms |-> FALSE, allowIcing |-> FALSE]
        [] l = "instrument-rated" ->
             [minVisibility |-> Undefined, minCeiling |-> Undefined, maxWindSpeed |-> 25,
              requiresClearSkies |-> FALSE, allowIMC |-> TRUE,
              allowThunderstorms |-> TRUE, allowIcing |-> FALSE] ]

WEATHER_MINIMUMS ==
  [ l \in TrainingLevels |->
      CASE l = "student-pilot" ->
             [minVisibility |-> 5, minCeiling |-> Undefined, maxWindSpeed |-> 10,
              requiresClearSkies |-> TRUE, allowIMC |-> FALSE,
              allowThunderstorms |-> FALSE, allowIcing |-> FALSE]
        [] l = "private-pilot" ->
             [minVisibility |-> 3, minCeiling |-> 1000, maxWindSpeed |-> 15,
              requiresClearSkies |-> FALSE, allowIMC |-> FALSE,
              allowThunderstorms |-> FALSE, allowIcing |-> FALSE]
        [] l = "instrument-rated" ->
             [minVisibility |-> Undefined, minCeiling |-> Undefined, maxWindSpeed |-> 25,
              requiresClearSkies |-> FALSE, allowIMC |-> TRUE,
              allowThunderstorms |-> FALSE, allowIcing |-> FALSE] ]

\* a violation string, kept as the rule that produced it and the two numbers
\* the template interpolates
Violation(rule, actual, limit) == [rule |-> rule, actual |-> actual, limit |-> limit]

\* the comparisons with the thresholds taken as inclusive
ViolationsInclusive(weather, trainingLevel) ==
  LET m == WEATHER_MINIMUMS[trainingLevel]
      vis == IF Truthy(m.minVisibility) /\ weather.visibility <= m.minVisibility
             THEN <<Violation("visibility", weather.visibility, m.minVisibility)>>
             ELSE <<>>
      ceil == IF Truthy(m.minCeiling)
              THEN IF ~Truthy(weather.ceiling)
                   THEN IF ~m.requiresClearSkies
                        THEN <<Violation("ceiling-unavailable", Undefined, m.minCeiling)>>
                        ELSE <<>>
                   ELSE IF weather.ceiling <= m.minCeiling
                        THEN <<Violation("ceiling", weather.ceiling, m.minCeiling)>>
                        ELSE <<>>
              ELSE <<>>
      clear == IF m.requiresClearSkies /\ weather.ceiling # Undefined
               THEN <<Violation("clouds", Undefined, Undefined)>>
               ELSE <<>>
      wind == IF weather.windSpeed >= m.maxWindSpeed
              THEN <<Violation("wind", weather.windSpeed, m.maxWindSpeed)>>
              ELSE <<>>
      ts == IF ~m.allowThunderstorms /\ weather.hasThunderstorms
            THEN <<Violation("thunderstorms", Undefined, Undefined)>>
            ELSE <<>>
      ice == IF ~m.allowIcing /\ weather.hasIcing
             THEN <<Violation("icing", Undefined, Undefined)>>
             ELSE <<>>
  IN vis \o ceil \o clear \o wind \o ts \o ice

\* the wind rule evaluated before the others
ViolationsWindFirst(weather, trainingLevel) ==
  LET m == WEATHER_MINIMUMS[trainingLevel]
      vis == IF Truthy(m.minVisibility) /\ weather.visibility < m.minVisibility
             THEN <<Violation("visibility", weather.visibility, m.minVisibility)>>
             ELSE <<>>
      ceil == IF Truthy(m.minCeiling)
              THEN IF ~Truthy(weather.ceiling)
                   THEN IF ~m.requiresClearSkies
                        THEN <<Violation("ceiling-unavailable", Undefined, m.minCeiling)>>
                        ELSE <<>>
                   ELSE IF weather.ceiling < m.minCeiling
                        THEN <<Violation("ceiling", weather.ceiling, m.minCeiling)>>
                        ELSE <<>>
              ELSE <<>>
      clear == IF m.requiresClearSkies /\ weather.ceiling # Undefined
               THEN <<Violation("clouds", Undefined, Undefined)>>
               ELSE <<>>
      wind == IF weather.windSpeed > m.maxWindSpeed
              THEN <<Violation("wind", weather.windSpeed, m.maxWindSpeed)>>
              ELSE <<>>
      ts == IF ~m.allowThunderstorms /\ weather.hasThunderstorms
            THEN <<Violation("thunderstorms", Undefined, Undefined)>>
            ELSE <<>>
      ice == IF ~m.allowIcing /\ weather.hasIcing
             THEN <<Violation("icing", Undefined, Undefined)>>
             ELSE <<>>
  IN wind \o vis \o ceil \o clear \o ts \o ice

Violations(weather, trainingLevel) ==
  LET m == WEATHER_MINIMUMS[trainingLevel]
      vis == IF Truthy(m.minVisibility) /\ weather.visibility < m.minVisibility
             THEN <<Violation("visibility", weather.visibility, m.minVisibility)>>
             ELSE <<>>
      ceil == IF Truthy(m.minCeiling)
              THEN IF ~Truthy(weather.ceiling)
                   THEN IF ~m.requiresClearSkies
                        THEN <<Violation("ceiling-unavailable", Undefined, m.minCeiling)>>
                        ELSE <<>>
                   ELSE IF weather.ceiling < m.minCeiling
                        THEN <<Violation("ceiling", weather.ceiling, m.minCeiling)>>
                        ELSE <<>>
              ELSE <<>>
      clear == IF m.requiresClearSkies /\ weather.ceiling # Undefined
               THEN <<Violation("clouds", Undefined, Undefined)>>
               ELSE <<>>
      wind == IF weather.windSpeed > m.maxWindSpeed
              THEN <<Violation("wind", weather.windSpeed, m.maxWindSpeed)>>
              ELSE <<>>
      ts == IF ~m.allowThunderstorms /\ weather.hasThunderstorms
            THEN <<Violation("thunderstorms", Undefined, Undefined)>>
            ELSE <<>>
      ice == IF ~m.allowIcing /\ weather.hasIcing
             THEN <<Violation("icing", Undefined, Undefined)>>
             ELSE <<>>
  IN vis \o ceil \o clear \o wind \o ts \o ice

\* wind at exactly 1.5 times the maximum counted as high
SeverityInclusive(weather, trainingLevel, violations) ==
  LET m == WEATHER_MINIMUMS[trainingLevel]
  IN IF weather.hasThunderstorms \/ weather.hasIcing
        \/ 2 * weather.windSpeed >= 3 * m.maxWindSpeed
     THEN "high"
     ELSE IF Len(violations) >= 2 THEN "medium" ELSE "low"

Severity(weather, trainingLevel, violations) ==
  LET m == WEATHER_MINIMUMS[trainingLevel]
  IN IF weather.hasThunderstorms \/ weather.hasIcing
        \/ 2 * weather.windSpeed > 3 * m.maxWindSpeed
     THEN "high"
     ELSE IF Len(violations) >= 2 THEN "medium" ELSE "low"

checkWeatherViolations(weather, trainingLevel) ==
  LET v == Violations(weather, trainingLevel)
  IN [violations |-> v, severity |-> Severity(weather, trainingLevel, v)]

\* ===== convex/weather.ts: conversion of the provider's payload =====

\* the factors 0.000621371 and 1.94384, cut to three digits to stay within 32 bits
metersToMiles(meters) == (meters * 621) \div 1000000
mpsToKnots(mps) == (mps * 194) \div 100
kelvinToCelsius(kelvin) == kelvin - 273

estimateCeiling(cloudCoverage) ==
  IF cloudCoverage = 0 THEN Undefined
  ELSE IF cloudCoverage < 25 THEN 7000
  ELSE IF cloudCoverage < 50 THEN 4000
  ELSE IF cloudCoverage < 75 THEN 2000
  ELSE 1000

hasThunderstorms(weatherConditions) ==
  \E i \in 1..Len(weatherConditions) :
     weatherConditions[i].id >= 200 /\ weatherConditions[i].id < 300

hasIcingConditions(temp, weatherConditions) ==
  IF temp < 0 \/ temp > 10 THEN FALSE
  ELSE \E i \in 1..Len(weatherConditions) :
          weatherConditions[i].main \in {"Rain", "Drizzle", "Clouds", "Snow"}

\* payloads the weather provider may answer with (OpenWeatherResponse)
Payload(vis, wind, clouds, temp, id, main) ==
  [visibility |-> vis, windSpeed |-> wind, clouds |-> clouds, temp |-> temp,
   weather |-> <<[id |-> id, main |-> main]>>]

Payloads ==
  { Payload(10000, 3, 0, 293, 800, "Clear"),
    Payload(5000, 3, 0, 293, 721, "Haze"),
    Payload(800, 16, 90, 293, 211, "Thunderstorm") }

VARIABLES
  now,               \* Date.now(), in ticks
  flightBookings,    \* table flightBookings: id -> document
  weatherData,       \* table weatherData: sequence indexed by _id
  weatherConflicts,  \* table weatherConflicts: sequence indexed by _id
  rescheduleOptions, \* table rescheduleOptions: sequence indexed by _id
  auditLog,          \* table auditLog: sequence of entries
  scheduled,         \* functions handed to ctx.scheduler.runAfter
  chk,               \* running checkBookingForConflicts actions
  batch,             \* the running checkAllActiveBookings action
  gen,               \* running generateRescheduleOptions actions
  reply,             \* what the last public mutation or cache lookup answered its caller
  fetchJob           \* the running fetchWeatherForActiveBookings action

vars == <<now, flightBookings, weatherData, weatherConflicts, rescheduleOptions,
          auditLog, scheduled, chk, batch, gen, reply, fetchJob>>


\* ===== documents =====

NoWeather ==
  [exists |-> FALSE, loc |-> 0, timestamp |-> 0, expiresAt |-> 0, visibility |-> 0,
   ceiling |-> Undefined, windSpeed |-> 0, hasThunderstorms |-> FALSE, hasIcing |-> FALSE]

Booking(level, loc, date) ==
  [status |-> "scheduled", scheduledDate |-> date, trainingLevel |-> level,
   departureLocation |-> loc]

\* the training level read through a booking whose student document is missing
NoStudent == "no-student"

NoResult == [ret |-> "none", conflictId |-> 0]
IdleCheck ==
  [pc |-> "idle", bookingId |-> 0, weatherId |-> 0, violations |-> <<>>,
   severity |-> "low", result |-> NoResult]
IdleFetchJob == [pc |-> "idle", list |-> <<>>, i |-> 0, results |-> <<>>]
IdleBatch ==
  [pc |-> "idle", list |-> <<>>, i |-> 0,
   results |-> [total |-> 0, conflicts |-> 0, resolved |-> 0, errors |-> 0]]

\* a string-typed field that is undefined
NoText == "undefined"
\* a date string that new Date() cannot parse
InvalidDateString == 0 - 3

NoResponse == [options |-> <<>>, overallReasoning |-> NoText, model |-> "none"]
IdleGen ==
  [pc |-> "idle", bookingId |-> 0, conflictId |-> 0, originalDate |-> 0,
   keys |-> [openai |-> FALSE, anthropic |-> FALSE], called |-> <<>>, raised |-> <<>>,
   aiResponse |-> NoResponse, result |-> [ret |-> "none", rescheduleId |-> 0]]

\* nothing was answered yet
NoReply == [fn |-> "none", ret |-> "none", newDate |-> 0]

GenProcs == {"g1", "g2"}
CheckProcs == {"cron", "m1", "m2"}
ManualProcs == {"m1", "m2"}
NotificationFns == {"createConflictNotification", "createRescheduleNotification",
                    "createBookingCancelledNotification"}

\* ----- generic helpers -----
RECURSIVE SortedSeq(_)
SortedSeq(S) ==
  IF S = {} THEN <<>>
  ELSE LET m == CHOOSE x \in S : \A y \in S : x <= y
       IN <<m>> \o SortedSeq(S \ {m})

\* Array.prototype.reduce((latest, current) =>
\*    current.timestamp > latest.timestamp ? current : latest) over ids
RECURSIVE ReduceLatest(_, _, _)
ReduceLatest(table, ids, latest) ==
  IF ids = <<>> THEN latest
  ELSE ReduceLatest(table, Tail(ids),
         IF table[Head(ids)].timestamp > table[latest].timestamp
         THEN Head(ids) ELSE latest)

\* ===== convex/conflicts.ts: queries =====

\* id of the most recent observation of the location, 0 for null
getLatestWeatherForLocation(table, loc) ==
  LET weatherList == SortedSeq({i \in 1..Len(table) : table[i].exists /\ table[i].loc = loc})
  IN IF Len(weatherList) = 0 THEN 0
     ELSE ReduceLatest(table, Tail(weatherList), Head(weatherList))

getActiveBookings(bookings, startTime, endTime) ==
  SortedSeq({b \in BookingIds :
               /\ bookings[b].status = "scheduled"
               /\ bookings[b].scheduledDate >= startTime
               /\ bookings[b].scheduledDate <= endTime})

\* .withIndex("by_booking").filter(resolved = false): ids in index order
UnresolvedConflicts(conflicts, bookingId) ==
  SortedSeq({c \in 1..Len(conflicts) :
               conflicts[c].bookingId = bookingId /\ ~conflicts[c].resolved})

\* the lookup of createOrUpdateConflict without its filter on resolved = false
\* taking effect: nothing is ever found, every detection inserts
ExistingUnresolvedNever(conflicts, bookingId) == 0

\* the lookup by booking alone: the first conflict of the booking, resolved or not
ExistingConflictAnyStatus(conflicts, bookingId) ==
  LET l == SortedSeq({c \in 1..Len(conflicts) : conflicts[c].bookingId = bookingId})
  IN IF l = <<>> THEN 0 ELSE Head(l)

\* ... .first(): 0 for null
ExistingUnresolved(conflicts, bookingId) ==
  LET l == UnresolvedConflicts(conflicts, bookingId)
  IN IF l = <<>> THEN 0 ELSE Head(l)

\* the stored observation replaced by the new one of the same location
fetchWeatherDataOverwrite(loc, data, dt) ==
  /\ Len(weatherData) < MaxWeather
  /\ dt >= 0
  /\ LET row == [exists |-> TRUE, loc |-> loc, timestamp |-> dt,
                 expiresAt |-> now + WEATHER_CACHE_TTL_MS,
                 visibility |-> metersToMiles(data.visibility),
                 ceiling |-> estimateCeiling(data.clouds),
                 windSpeed |-> mpsToKnots(data.windSpeed),
                 hasThunderstorms |-> hasThunderstorms(data.weather),
                 hasIcing |-> hasIcingConditions(kelvinToCelsius(data.temp), data.weather)]
         old == getLatestWeatherForLocation(weatherData, loc)
     IN weatherData' = IF old = 0 THEN Append(weatherData, row)
                       ELSE [weatherData EXCEPT ![old] = row]
  /\ UNCHANGED <<now, flightBookings, weatherConflicts, rescheduleOptions,
                 auditLog, scheduled, chk, batch, gen, reply, fetchJob>>

\* the booking joined with its student, when both documents exist
getBookingWithStudentNoJoin(bookings, bookingId) ==
  bookingId \in BookingIds

\* getBookingWithStudent: FALSE for null
getBookingWithStudent(bookings, bookingId) ==
  /\ bookingId \in BookingIds
  /\ bookings[bookingId].trainingLevel # NoStudent

\* two bookings created through bookings.create
InitialBookings ==
  [b \in BookingIds |->
     IF b = 1 THEN Booking("student-pilot", 1, 10 * HOUR)
              ELSE Booking("instrument-rated", 1, DAY + 3)]

Init ==
  /\ now = 0
  /\ flightBookings = InitialBookings
  /\ weatherData = <<>>
  /\ weatherConflicts = <<>>
  /\ rescheduleOptions = <<>>
  /\ auditLog = <<>>
  /\ scheduled = [f \in NotificationFns \X BookingIds |-> 0]
  /\ chk = [p \in CheckProcs |-> IdleCheck]
  /\ batch = IdleBatch
  /\ gen = [g \in GenProcs |-> IdleGen]
  /\ reply = NoReply
  /\ fetchJob = IdleFetchJob

\* ----- the clock -----
Tick(max) ==
  /\ now < max
  /\ now' = now + 1
  /\ UNCHANGED <<flightBookings, weatherData, weatherConflicts, rescheduleOptions,
                 auditLog, scheduled, chk, batch, gen, reply, fetchJob>>

\* ===== convex/weather.ts =====

\* fetchWeatherData: the provider answers, the payload is converted and
\* storeWeatherData inserts it (a failed fetch throws and writes nothing)
fetchWeatherData(loc, data, dt) ==
  /\ Len(weatherData) < MaxWeather
  /\ dt >= 0
  /\ weatherData' = Append(weatherData,
         [exists |-> TRUE, loc |-> loc, timestamp |-> dt,
          expiresAt |-> now + WEATHER_CACHE_TTL_MS,
          visibility |-> metersToMiles(data.visibility),
          ceiling |-> estimateCeiling(data.clouds),
          windSpeed |-> mpsToKnots(data.windSpeed),
          hasThunderstorms |-> hasThunderstorms(data.weather),
          hasIcing |-> hasIcingConditions(kelvinToCelsius(data.temp), data.weather)])
  /\ UNCHANGED <<now, flightBookings, weatherConflicts, rescheduleOptions,
                 auditLog, scheduled, chk, batch, gen, reply, fetchJob>>

\* the sweep taking expiresAt <= now as expired
cleanupExpiredWeatherInclusive ==
  /\ \E i \in 1..Len(weatherData) : weatherData[i].exists /\ weatherData[i].expiresAt <= now
  /\ weatherData' = [i \in 1..Len(weatherData) |->
        IF weatherData[i].exists /\ weatherData[i].expiresAt <= now
        THEN NoWeather ELSE weatherData[i]]
  /\ UNCHANGED <<now, flightBookings, weatherConflicts, rescheduleOptions,
                 auditLog, scheduled, chk, batch, gen, reply, fetchJob>>

cleanupExpiredWeather ==
  /\ \E i \in 1..Len(weatherData) : weatherData[i].exists /\ weatherData[i].expiresAt < now
  /\ weatherData' = [i \in 1..Len(weatherData) |->
        IF weatherData[i].exists /\ weatherData[i].expiresAt < now
        THEN NoWeather ELSE weatherData[i]]
  /\ UNCHANGED <<now, flightBookings, weatherConflicts, rescheduleOptions,
                 auditLog, scheduled, chk, batch, gen, reply, fetchJob>>

\* the rows of S in the order of the index by_location_and_expires:
\* by expiresAt, then by creation
RECURSIVE SortedByExpiry(_, _)
SortedByExpiry(table, S) ==
  IF S = {} THEN <<>>
  ELSE LET m == CHOOSE x \in S : \A y \in S :
                   \/ table[x].expiresAt < table[y].expiresAt
                   \/ table[x].expiresAt = table[y].expiresAt /\ x <= y
       IN <<m>> \o SortedByExpiry(table, S \ {m})

\* the range of the index read with expiresAt >= now
CachedWeatherInclusive(table, loc, t) ==
  LET weatherList == SortedByExpiry(table,
        {i \in 1..Len(table) : table[i].exists /\ table[i].loc = loc
                                 /\ table[i].expiresAt >= t})
  IN IF Len(weatherList) = 0 THEN 0
     ELSE ReduceLatest(table, Tail(weatherList), Head(weatherList))

\* what getCachedWeather returns at time t: the id of a row, 0 for null
CachedWeather(table, loc, t) ==
  LET weatherList == SortedByExpiry(table,
        {i \in 1..Len(table) : table[i].exists /\ table[i].loc = loc
                                 /\ table[i].expiresAt > t})
  IN IF Len(weatherList) = 0 THEN 0
     ELSE ReduceLatest(table, Tail(weatherList), Head(weatherList))

\* what a query of the weather cache answers: the document found, for which
\* location and at what time
QueryAnswer(fn, loc, id, at) ==
  [fn |-> fn, ret |-> IF id = 0 THEN "null" ELSE "document", newDate |-> 0,
   loc |-> loc, doc |-> id, at |-> at]

getCachedWeather(loc) ==
  /\ reply' = QueryAnswer("getCachedWeather", loc, CachedWeather(weatherData, loc, now), now)
  /\ UNCHANGED <<now, flightBookings, weatherData, weatherConflicts, rescheduleOptions,
                 auditLog, scheduled, chk, batch, gen, fetchJob>>

\* ----- fetchWeatherForActiveBookings, the cron job -----

\* runQuery(getActiveBookingsForWeather): the scheduled bookings of the window
FetchJobStart ==
  /\ fetchJob.pc = "idle"
  /\ fetchJob' = [pc |-> "cache", i |-> 1, results |-> <<>>,
                  list |-> getActiveBookings(flightBookings, now, now + WINDOW_48H)]
  /\ UNCHANGED <<now, flightBookings, weatherData, weatherConflicts, rescheduleOptions,
                 auditLog, scheduled, chk, batch, gen, reply>>

\* the job fetching without looking at the cache
FetchJobCachedAlwaysFetches ==
  /\ fetchJob.pc = "cache"
  /\ fetchJob.i <= Len(fetchJob.list)
  /\ fetchJob' = [fetchJob EXCEPT !.pc = "fetch"]
  /\ UNCHANGED <<now, flightBookings, weatherData, weatherConflicts, rescheduleOptions,
                 auditLog, scheduled, chk, batch, gen, reply>>

\* runQuery(getCachedWeather) for the departure location of the next booking;
\* the bookings have no destinationLocation, so a cache hit ends the iteration
FetchJobCached ==
  /\ fetchJob.pc = "cache"
  /\ fetchJob.i <= Len(fetchJob.list)
  /\ LET loc == flightBookings[fetchJob.list[fetchJob.i]].departureLocation
     IN fetchJob' = IF CachedWeather(weatherData, loc, now) # 0
                    THEN [fetchJob EXCEPT !.i = @ + 1]
                    ELSE [fetchJob EXCEPT !.pc = "fetch"]
  /\ UNCHANGED <<now, flightBookings, weatherData, weatherConflicts, rescheduleOptions,
                 auditLog, scheduled, chk, batch, gen, reply>>

\* runAction(fetchWeatherData): the observation is stored and its id pushed
FetchJobFetch(data) ==
  /\ fetchJob.pc = "fetch"
  /\ Len(weatherData) < MaxWeather
  /\ LET b == fetchJob.list[fetchJob.i]
         loc == flightBookings[b].departureLocation
     IN /\ weatherData' = Append(weatherData,
              [exists |-> TRUE, loc |-> loc, timestamp |-> now,
               expiresAt |-> now + WEATHER_CACHE_TTL_MS,
               visibility |-> metersToMiles(data.visibility),
               ceiling |-> estimateCeiling(data.clouds),
               windSpeed |-> mpsToKnots(data.windSpeed),
               hasThunderstorms |-> hasThunderstorms(data.weather),
               hasIcing |-> hasIcingConditions(kelvinToCelsius(data.temp), data.weather)])
        /\ fetchJob' = [fetchJob EXCEPT
              !.pc = "cache", !.i = @ + 1,
              !.results = Append(@, [bookingId |-> b, weatherId |-> Len(weatherData) + 1])]
  /\ UNCHANGED <<now, flightBookings, weatherConflicts, rescheduleOptions,
                 auditLog, scheduled, chk, batch, gen, reply>>

\* the fetch throws (provider error): caught and logged, the loop goes on
FetchJobFails ==
  /\ fetchJob.pc = "fetch"
  /\ fetchJob' = [fetchJob EXCEPT !.pc = "cache", !.i = @ + 1]
  /\ UNCHANGED <<now, flightBookings, weatherData, weatherConflicts, rescheduleOptions,
                 auditLog, scheduled, chk, batch, gen, reply>>

\* the job returns { processed, weatherDataFetched, results }
FetchJobDone ==
  /\ fetchJob.pc = "cache"
  /\ fetchJob.i > Len(fetchJob.list)
  /\ fetchJob' = [fetchJob EXCEPT !.pc = "done"]
  /\ UNCHANGED <<now, flightBookings, weatherData, weatherConflicts, rescheduleOptions,
                 auditLog, scheduled, chk, batch, gen, reply>>

\* ===== convex/conflicts.ts: checkBookingForConflicts =====

\* the action returns: its result is visible to the caller in pc = "return"
Return(p, r) == chk' = [chk EXCEPT ![p] = [IdleCheck EXCEPT !.pc = "return",
                                             !.bookingId = chk[p].bookingId,
                                             !.result = r]]

\* conflicts.checkBooking schedules the action (manual trigger)
checkBooking(p, b) ==
  /\ chk[p].pc = "idle"
  /\ chk' = [chk EXCEPT ![p] = [IdleCheck EXCEPT !.pc = "getBooking", !.bookingId = b]]
  /\ UNCHANGED <<now, flightBookings, weatherData, weatherConflicts, rescheduleOptions,
                 auditLog, scheduled, batch, gen, reply, fetchJob>>

\* runQuery(getBookingWithStudent) and the status test
CheckGetBooking(p) ==
  /\ chk[p].pc = "getBooking"
  /\ IF ~getBookingWithStudent(flightBookings, chk[p].bookingId)
     THEN Return(p, [ret |-> "null", conflictId |-> 0])
     ELSE IF flightBookings[chk[p].bookingId].status # "scheduled"
     THEN Return(p, [ret |-> "null", conflictId |-> 0])
     ELSE chk' = [chk EXCEPT ![p].pc = "getWeather"]
  /\ UNCHANGED <<now, flightBookings, weatherData, weatherConflicts, rescheduleOptions,
                 auditLog, scheduled, batch, gen, reply, fetchJob>>

\* runQuery(getLatestWeatherForLocation) and checkWeatherViolations
CheckGetWeather(p) ==
  /\ chk[p].pc = "getWeather"
  /\ LET b == flightBookings[chk[p].bookingId]
         w == getLatestWeatherForLocation(weatherData, b.departureLocation)
     IN IF w = 0
        THEN Return(p, [ret |-> "null", conflictId |-> 0])
        ELSE IF b.trainingLevel = NoStudent
        THEN \* booking.student.trainingLevel on a null student
             Return(p, [ret |-> "TypeError", conflictId |-> 0])
        ELSE LET r == checkWeatherViolations(weatherData[w], b.trainingLevel)
             IN chk' = [chk EXCEPT ![p].pc = "upsert", ![p].weatherId = w,
                                   ![p].violations = r.violations,
                                   ![p].severity = r.severity]
  /\ UNCHANGED <<now, flightBookings, weatherData, weatherConflicts, rescheduleOptions,
                 auditLog, scheduled, batch, gen, reply, fetchJob>>

\* the notification dispatched on the update of an existing conflict too
createOrUpdateConflictAlwaysNotifies(p) ==
  /\ chk[p].pc = "upsert"
  /\ Len(chk[p].violations) > 0
  /\ LET b == chk[p].bookingId
         existing == ExistingUnresolved(weatherConflicts, b)
     IN IF existing # 0
        THEN /\ weatherConflicts' = [weatherConflicts EXCEPT
                   ![existing].weatherDataId = chk[p].weatherId,
                   ![existing].violatedConditions = chk[p].violations,
                   ![existing].severity = chk[p].severity,
                   ![existing].detectedAt = now]
             /\ chk' = [chk EXCEPT ![p].pc = "mark", ![p].result.conflictId = existing]
             /\ scheduled' = [scheduled EXCEPT ![<<"createConflictNotification", b>>] = @ + 1]
        ELSE /\ Len(weatherConflicts) < MaxConflicts
             /\ weatherConflicts' = Append(weatherConflicts,
                   [bookingId |-> b, detectedAt |-> now,
                    weatherDataId |-> chk[p].weatherId,
                    studentTrainingLevel |-> flightBookings[b].trainingLevel,
                    violatedConditions |-> chk[p].violations,
                    severity |-> chk[p].severity,
                    resolved |-> FALSE, resolvedAt |-> Undefined])
             /\ scheduled' = [scheduled EXCEPT ![<<"createConflictNotification", b>>] = @ + 1]
             /\ chk' = [chk EXCEPT ![p].pc = "mark",
                                   ![p].result.conflictId = Len(weatherConflicts) + 1]
  /\ UNCHANGED <<now, flightBookings, weatherData, rescheduleOptions, auditLog, batch, gen, reply, fetchJob>>

\* runMutation(createOrUpdateConflict)
createOrUpdateConflict(p) ==
  /\ chk[p].pc = "upsert"
  /\ Len(chk[p].violations) > 0
  /\ LET b == chk[p].bookingId
         existing == ExistingUnresolved(weatherConflicts, b)
     IN IF existing # 0
        THEN /\ weatherConflicts' = [weatherConflicts EXCEPT
                   ![existing].weatherDataId = chk[p].weatherId,
                   ![existing].violatedConditions = chk[p].violations,
                   ![existing].severity = chk[p].severity,
                   ![existing].detectedAt = now]
             /\ chk' = [chk EXCEPT ![p].pc = "mark", ![p].result.conflictId = existing]
             /\ UNCHANGED scheduled
        ELSE /\ Len(weatherConflicts) < MaxConflicts
             /\ weatherConflicts' = Append(weatherConflicts,
                   [bookingId |-> b, detectedAt |-> now,
                    weatherDataId |-> chk[p].weatherId,
                    studentTrainingLevel |-> flightBookings[b].trainingLevel,
                    violatedConditions |-> chk[p].violations,
                    severity |-> chk[p].severity,
                    resolved |-> FALSE, resolvedAt |-> Undefined])
             /\ scheduled' = [scheduled EXCEPT ![<<"createConflictNotification", b>>] = @ + 1]
             /\ chk' = [chk EXCEPT ![p].pc = "mark",
                                   ![p].result.conflictId = Len(weatherConflicts) + 1]
  /\ UNCHANGED <<now, flightBookings, weatherData, rescheduleOptions, auditLog, batch, gen, reply, fetchJob>>

\* runMutation(markBookingAsConflict), then the action returns
markBookingAsConflict(p) ==
  /\ chk[p].pc = "mark"
  /\ Len(chk[p].violations) > 0
  /\ LET b == chk[p].bookingId
     IN flightBookings' = IF flightBookings[b].status = "scheduled"
                          THEN [flightBookings EXCEPT ![b].status = "weather-conflict"]
                          ELSE flightBookings
  /\ Return(p, [ret |-> "conflict", conflictId |-> chk[p].result.conflictId])
  /\ UNCHANGED <<now, weatherData, weatherConflicts, rescheduleOptions,
                 auditLog, scheduled, batch, gen, reply, fetchJob>>

\* runMutation(resolveConflictsForBooking)
resolveConflictsForBooking(p) ==
  /\ chk[p].pc = "upsert"
  /\ Len(chk[p].violations) = 0
  /\ weatherConflicts' = [c \in 1..Len(weatherConflicts) |->
        IF weatherConflicts[c].bookingId = chk[p].bookingId /\ ~weatherConflicts[c].resolved
        THEN [weatherConflicts[c] EXCEPT !.resolved = TRUE, !.resolvedAt = now]
        ELSE weatherConflicts[c]]
  /\ chk' = [chk EXCEPT ![p].pc = "mark"]
  /\ UNCHANGED <<now, flightBookings, weatherData, rescheduleOptions,
                 auditLog, scheduled, batch, gen, reply, fetchJob>>

\* runMutation(clearBookingConflict), then the action returns
clearBookingConflict(p) ==
  /\ chk[p].pc = "mark"
  /\ Len(chk[p].violations) = 0
  /\ LET b == chk[p].bookingId
     IN flightBookings' = IF flightBookings[b].status = "weather-conflict"
                          THEN [flightBookings EXCEPT ![b].status = "scheduled"]
                          ELSE flightBookings
  /\ Return(p, [ret |-> "clear", conflictId |-> 0])
  /\ UNCHANGED <<now, weatherData, weatherConflicts, rescheduleOptions,
                 auditLog, scheduled, batch, gen, reply, fetchJob>>

\* the scheduled (manual) action ends
CheckReturn(p) ==
  /\ chk[p].pc = "return"
  /\ chk' = [chk EXCEPT ![p] = IdleCheck]
  /\ UNCHANGED <<now, flightBookings, weatherData, weatherConflicts, rescheduleOptions,
                 auditLog, scheduled, batch, gen, reply, fetchJob>>

\* an awaited runQuery / runMutation of the action rejects (the platform fails the
\* call): the action throws to its caller with the writes of the mutations that
\* had already returned kept
CheckRaises(p) ==
  /\ chk[p].pc \in {"getBooking", "getWeather", "upsert", "mark"}
  /\ Return(p, [ret |-> "error", conflictId |-> 0])
  /\ UNCHANGED <<now, flightBookings, weatherData, weatherConflicts, rescheduleOptions,
                 auditLog, scheduled, batch, gen, reply, fetchJob>>

\* ===== convex/conflicts.ts: checkAllActiveBookings =====

BatchStart ==
  /\ batch.pc = "idle"
  /\ LET bookings == getActiveBookings(flightBookings, now, now + WINDOW_48H)
     IN batch' = [pc |-> "loop", list |-> bookings, i |-> 1,
                  results |-> [total |-> Len(bookings), conflicts |-> 0,
                               resolved |-> 0, errors |-> 0]]
  /\ UNCHANGED <<now, flightBookings, weatherData, weatherConflicts, rescheduleOptions,
                 auditLog, scheduled, chk, gen, reply, fetchJob>>

\* runAction(checkBookingForConflicts) for the next booking of the list
BatchCheck ==
  /\ batch.pc = "loop"
  /\ batch.i <= Len(batch.list)
  /\ chk["cron"].pc = "idle"
  /\ chk' = [chk EXCEPT !["cron"] = [IdleCheck EXCEPT !.pc = "getBooking",
                                                       !.bookingId = batch.list[batch.i]]]
  /\ UNCHANGED <<now, flightBookings, weatherData, weatherConflicts, rescheduleOptions,
                 auditLog, scheduled, batch, gen, reply, fetchJob>>

\* the loop without its try / catch: an error ends the batch
BatchCountAborts ==
  /\ batch.pc = "loop"
  /\ chk["cron"].pc = "return"
  /\ LET result == chk["cron"].result
     IN batch' = [batch EXCEPT
          !.pc = IF result.ret \in {"TypeError", "error"} THEN "done" ELSE @,
          !.i = @ + 1,
          !.results.conflicts = IF result.ret = "conflict" THEN @ + 1 ELSE @,
          !.results.resolved = IF result.ret = "clear" THEN @ + 1 ELSE @,
          !.results.errors = IF result.ret \in {"TypeError", "error"} THEN @ + 1 ELSE @]
  /\ chk' = [chk EXCEPT !["cron"] = IdleCheck]
  /\ UNCHANGED <<now, flightBookings, weatherData, weatherConflicts, rescheduleOptions,
                 auditLog, scheduled, gen, reply, fetchJob>>

\* the awaited check returns and is counted
BatchCount ==
  /\ batch.pc = "loop"
  /\ chk["cron"].pc = "return"
  /\ LET result == chk["cron"].result
     IN batch' = [batch EXCEPT
          !.i = @ + 1,
          !.results.conflicts = IF result.ret = "conflict" THEN @ + 1 ELSE @,
          !.results.resolved = IF result.ret = "clear" THEN @ + 1 ELSE @,
          !.results.errors = IF result.ret \in {"TypeError", "error"} THEN @ + 1 ELSE @]
  /\ chk' = [chk EXCEPT !["cron"] = IdleCheck]
  /\ UNCHANGED <<now, flightBookings, weatherData, weatherConflicts, rescheduleOptions,
                 auditLog, scheduled, gen, reply, fetchJob>>

BatchDone ==
  /\ batch.pc = "loop"
  /\ batch.i > Len(batch.list)
  /\ batch' = [batch EXCEPT !.pc = "done"]
  /\ UNCHANGED <<now, flightBookings, weatherData, weatherConflicts, rescheduleOptions,
                 auditLog, scheduled, chk, gen, reply, fetchJob>>

BatchReturn ==
  /\ batch.pc = "done"
  /\ batch' = IdleBatch
  /\ UNCHANGED <<now, flightBookings, weatherData, weatherConflicts, rescheduleOptions,
                 auditLog, scheduled, chk, gen, reply, fetchJob>>

\* what a mutation answers: its return value, or the error it throws (a throw
\* aborts the transaction, so nothing it wrote is kept)
Answer(fn, ret, newDate) == [fn |-> fn, ret |-> ret, newDate |-> newDate]

Throw(fn, message) ==
  /\ reply' = Answer(fn, message, 0)
  /\ UNCHANGED <<now, flightBookings, weatherData, weatherConflicts, rescheduleOptions,
                 auditLog, scheduled, chk, batch, gen, fetchJob>>

\* ===== convex/bookings.ts =====

BookingStatuses ==
  {"scheduled", "cancelled", "rescheduled", "completed", "weather-conflict"}

\* validTransitions[previousStatus]
validTransitions(previousStatus) ==
  CASE previousStatus = "scheduled" ->
         {"cancelled", "completed", "weather-conflict", "rescheduled"}
    [] previousStatus = "weather-conflict" -> {"cancelled", "rescheduled", "scheduled"}
    [] previousStatus = "rescheduled" -> {"scheduled", "cancelled", "completed"}
    [] previousStatus = "cancelled" -> {}
    [] previousStatus = "completed" -> {}

updateStatus(bookingId, newStatus) ==
  IF bookingId \notin BookingIds
  THEN Throw("updateStatus", "Booking not found")
  ELSE IF newStatus \notin validTransitions(flightBookings[bookingId].status)
  THEN Throw("updateStatus", "Invalid status transition")
  ELSE /\ Len(auditLog) < MaxAudit
       /\ flightBookings' = [flightBookings EXCEPT ![bookingId].status = newStatus]
       /\ auditLog' = Append(auditLog, [entityType |-> "booking", entityId |-> bookingId,
                                        action |-> "status_updated"])
       /\ scheduled' = IF newStatus = "cancelled"
                       THEN [scheduled EXCEPT
                               ![<<"createBookingCancelledNotification", bookingId>>] = @ + 1]
                       ELSE scheduled
       /\ reply' = Answer("updateStatus", "success", 0)
       /\ UNCHANGED <<now, weatherData, weatherConflicts, rescheduleOptions, chk, batch,
                      gen, fetchJob>>

\* bookings.reschedule (the name reschedule is the document read in accept)
bookings_reschedule(bookingId, newScheduledDate) ==
  IF bookingId \notin BookingIds
  THEN Throw("reschedule", "Booking not found")
  ELSE IF newScheduledDate < now
  THEN Throw("reschedule", "New scheduled date must be in the future")
  ELSE /\ Len(auditLog) < MaxAudit
       /\ flightBookings' = [flightBookings EXCEPT
             ![bookingId].scheduledDate = newScheduledDate,
             ![bookingId].status = "rescheduled"]
       /\ auditLog' = Append(auditLog, [entityType |-> "booking", entityId |-> bookingId,
                                        action |-> "rescheduled"])
       /\ reply' = Answer("reschedule", "success", newScheduledDate)
       /\ UNCHANGED <<now, weatherData, weatherConflicts, rescheduleOptions, scheduled,
                      chk, batch, gen, fetchJob>>

\* bookings.remove: the soft delete
remove(bookingId) ==
  IF bookingId \notin BookingIds
  THEN Throw("remove", "Booking not found")
  ELSE /\ Len(auditLog) < MaxAudit
       /\ flightBookings' = [flightBookings EXCEPT ![bookingId].status = "cancelled"]
       /\ auditLog' = Append(auditLog, [entityType |-> "booking", entityId |-> bookingId,
                                        action |-> "deleted"])
       /\ reply' = Answer("remove", "success", 0)
       /\ UNCHANGED <<now, weatherData, weatherConflicts, rescheduleOptions, scheduled,
                      chk, batch, gen, fetchJob>>

\* ===== convex/conflicts.ts: resolveConflict =====

\* the manual resolution also reverting the booking to scheduled
resolveConflictClearsBooking(conflictId) ==
  IF conflictId \notin 1..Len(weatherConflicts)
  THEN Throw("resolveConflict", "Conflict not found")
  ELSE /\ Len(auditLog) < MaxAudit
       /\ weatherConflicts' = [weatherConflicts EXCEPT ![conflictId].resolved = TRUE,
                                                       ![conflictId].resolvedAt = now]
       /\ flightBookings' = [flightBookings EXCEPT
             ![weatherConflicts[conflictId].bookingId].status = "scheduled"]
       /\ auditLog' = Append(auditLog, [entityType |-> "weather", entityId |-> conflictId,
                                        action |-> "conflict_resolved"])
       /\ reply' = Answer("resolveConflict", "success", 0)
       /\ UNCHANGED <<now, weatherData, rescheduleOptions, scheduled, chk, batch, gen, fetchJob>>

resolveConflict(conflictId) ==
  IF conflictId \notin 1..Len(weatherConflicts)
  THEN Throw("resolveConflict", "Conflict not found")
  ELSE /\ Len(auditLog) < MaxAudit
       /\ weatherConflicts' = [weatherConflicts EXCEPT ![conflictId].resolved = TRUE,
                                                       ![conflictId].resolvedAt = now]
       /\ auditLog' = Append(auditLog, [entityType |-> "weather", entityId |-> conflictId,
                                        action |-> "conflict_resolved"])
       /\ reply' = Answer("resolveConflict", "success", 0)
       /\ UNCHANGED <<now, flightBookings, weatherData, rescheduleOptions, scheduled,
                      chk, batch, gen, fetchJob>>

\* ===== convex/reschedule.ts: providers =====

\* the JSON content a reasoning service may answer with
RawOption(date, reasoning, score) == [date |-> date, reasoning |-> reasoning, score |-> score]

ProviderContents ==
  { [options |-> <<RawOption(60, "text", 90), RawOption(70, "text", Undefined)>>,
     overallReasoning |-> "text"],
    [options |-> <<RawOption(60, "text", 0)>>, overallReasoning |-> "text"],
    [options |-> <<>>, overallReasoning |-> "text"],
    [options |-> <<RawOption(InvalidDateString, "text", 90)>>, overallReasoning |-> "text"],
    [options |-> <<RawOption(60, NoText, 90)>>, overallReasoning |-> "text"] }

\* new Date(opt.date).getTime()
DateParse(date) == IF date = InvalidDateString THEN NaN ELSE date

\* content.options.map(...) of generateRescheduleWithOpenAI / ...WithClaude
ConvertOptions(options) ==
  [i \in 1..Len(options) |->
     [date |-> DateParse(options[i].date),
      reasoning |-> options[i].reasoning,
      score |-> IF Truthy(options[i].score) THEN options[i].score ELSE 80]]

ProviderResponse(content, model) ==
  [options |-> ConvertOptions(content.options),
   overallReasoning |-> content.overallReasoning, model |-> model]

\* new Date(original); setDate(getDate() + days); setHours(hour, 0, 0, 0); getTime()
AtHour(originalDate, days, hour) ==
  IF originalDate = NaN THEN NaN
  ELSE (originalDate \div DAY + days) * DAY + hour * HOUR

\* the fallback with its three scores in the reverse order
generateFallbackSuggestionsReversed(originalDate) ==
  [options |-> << [date |-> AtHour(originalDate, 1, 9), reasoning |-> "text", score |-> 85],
                  [date |-> AtHour(originalDate, 2, 10), reasoning |-> "text", score |-> 80],
                  [date |-> AtHour(originalDate, 3, 8), reasoning |-> "text", score |-> 75] >>,
   overallReasoning |-> "text",
   model |-> "fallback-rules"]

generateFallbackSuggestions(originalDate) ==
  [options |-> << [date |-> AtHour(originalDate, 1, 9), reasoning |-> "text", score |-> 75],
                  [date |-> AtHour(originalDate, 2, 10), reasoning |-> "text", score |-> 80],
                  [date |-> AtHour(originalDate, 3, 8), reasoning |-> "text", score |-> 85] >>,
   overallReasoning |-> "text",
   model |-> "fallback-rules"]

\* the provider the handler calls for the configured keys: the if / else-if
\* chain inside the try block
ProviderChain(keys) ==
  IF keys.openai THEN <<"openai">>
  ELSE IF keys.anthropic THEN <<"anthropic">>
  ELSE <<>>

ModelOf(provider) ==
  IF provider = "openai" THEN "gpt-4o-mini" ELSE "claude-3-5-sonnet-20241022"

\* the argument validators of storeRescheduleOptions (v.number() admits NaN)
ValidArgs(response) ==
  /\ response.overallReasoning # NoText
  /\ \A i \in 1..Len(response.options) : response.options[i].reasoning # NoText

\* the lookup of storeRescheduleOptions without its filter on status = pending
ExistingPendingAnyStatus(options, bookingId) ==
  LET l == SortedSeq({r \in 1..Len(options) : options[r].bookingId = bookingId})
  IN IF l = <<>> THEN 0 ELSE Head(l)

\* the lookup of storeRescheduleOptions finding nothing: every generation inserts
ExistingPendingNever(options, bookingId) == 0

\* .withIndex("by_booking").filter(status = "pending").first(): 0 for null
ExistingPending(options, bookingId) ==
  LET l == SortedSeq({r \in 1..Len(options) :
                        options[r].bookingId = bookingId /\ options[r].status = "pending"})
  IN IF l = <<>> THEN 0 ELSE Head(l)

\* getBookingForReschedule: null when a document is missing
getBookingForReschedule(bookingId, conflictId) ==
  /\ bookingId \in BookingIds
  /\ conflictId \in 1..Len(weatherConflicts)
  /\ weatherConflicts[conflictId].weatherDataId \in 1..Len(weatherData)
  /\ weatherData[weatherConflicts[conflictId].weatherDataId].exists

\* ===== convex/reschedule.ts: generateRescheduleOptions =====

\* the action starts: runQuery(getBookingForReschedule)
GenStart(g, b, c) ==
  /\ gen[g].pc = "idle"
  /\ c \in 1..Len(weatherConflicts)
  /\ IF getBookingForReschedule(b, c)
     THEN gen' = [gen EXCEPT ![g] = [IdleGen EXCEPT !.pc = "provider", !.bookingId = b,
                     !.conflictId = c,
                     !.originalDate = flightBookings[b].scheduledDate]]
     ELSE gen' = [gen EXCEPT ![g] = [IdleGen EXCEPT !.pc = "return", !.bookingId = b,
                     !.conflictId = c,
                     !.result = [ret |-> "Booking or conflict not found",
                                 rescheduleId |-> 0]]]
  /\ UNCHANGED <<now, flightBookings, weatherData, weatherConflicts, rescheduleOptions,
                 auditLog, scheduled, chk, batch, reply, fetchJob>>

\* the notification dispatched on the overwrite of a pending set too
GenerateAndStoreAlwaysNotifies(g, keys, raise, answer) ==
  /\ gen[g].pc = "provider"
  /\ LET b == gen[g].bookingId
         chain == ProviderChain(keys)
         raises == chain = <<>> \/ raise
         r == IF raises THEN generateFallbackSuggestions(gen[g].originalDate)
              ELSE ProviderResponse(answer, ModelOf(chain[1]))
         existing == ExistingPending(rescheduleOptions, b)
         trace == [gen[g] EXCEPT !.pc = "return", !.keys = keys, !.called = chain,
                     !.raised = IF chain # <<>> /\ raise THEN chain ELSE <<>>,
                     !.aiResponse = r]
     IN IF ~ValidArgs(r)
        THEN /\ gen' = [gen EXCEPT ![g] = [trace EXCEPT
                          !.result = [ret |-> "ArgumentValidationError", rescheduleId |-> 0]]]
             /\ UNCHANGED <<rescheduleOptions, scheduled>>
        ELSE IF existing # 0
        THEN /\ rescheduleOptions' = [rescheduleOptions EXCEPT
                   ![existing].suggestedDates = r.options,
                   ![existing].aiModel = r.model,
                   ![existing].aiReasoning = r.overallReasoning,
                   ![existing].generatedAt = now]
             /\ gen' = [gen EXCEPT ![g] = [trace EXCEPT
                          !.result = [ret |-> "ok", rescheduleId |-> existing]]]
             /\ scheduled' = [scheduled EXCEPT ![<<"createRescheduleNotification", b>>] = @ + 1]
        ELSE /\ Len(rescheduleOptions) < MaxOptionSets
             /\ rescheduleOptions' = Append(rescheduleOptions,
                   [bookingId |-> b, conflictId |-> gen[g].conflictId,
                    suggestedDates |-> r.options, aiModel |-> r.model,
                    aiReasoning |-> r.overallReasoning,
                    generatedAt |-> now, status |-> "pending",
                    selectedOptionIndex |-> Undefined])
             /\ scheduled' = [scheduled EXCEPT ![<<"createRescheduleNotification", b>>] = @ + 1]
             /\ gen' = [gen EXCEPT ![g] = [trace EXCEPT
                          !.result = [ret |-> "ok",
                                      rescheduleId |-> Len(rescheduleOptions) + 1]]]
  /\ UNCHANGED <<now, flightBookings, weatherData, weatherConflicts, auditLog, chk, batch, reply, fetchJob>>


\* the try / catch around the providers and runMutation(storeRescheduleOptions);
\* then the action returns.  The provider called either raises (HTTP error,
\* timeout, unparseable JSON) or answers with a content; its call touches no
\* shared state, so it is taken in one step with the mutation that follows it.
GenerateAndStore(g, keys, raise, answer) ==
  /\ gen[g].pc = "provider"
  /\ LET b == gen[g].bookingId
         chain == ProviderChain(keys)
         raises == chain = <<>> \/ raise
         r == IF raises THEN generateFallbackSuggestions(gen[g].originalDate)
              ELSE ProviderResponse(answer, ModelOf(chain[1]))
         existing == ExistingPending(rescheduleOptions, b)
         trace == [gen[g] EXCEPT !.pc = "return", !.keys = keys, !.called = chain,
                     !.raised = IF chain # <<>> /\ raise THEN chain ELSE <<>>,
                     !.aiResponse = r]
     IN IF ~ValidArgs(r)
        THEN /\ gen' = [gen EXCEPT ![g] = [trace EXCEPT
                          !.result = [ret |-> "ArgumentValidationError", rescheduleId |-> 0]]]
             /\ UNCHANGED <<rescheduleOptions, scheduled>>
        ELSE IF existing # 0
        THEN /\ rescheduleOptions' = [rescheduleOptions EXCEPT
                   ![existing].suggestedDates = r.options,
                   ![existing].aiModel = r.model,
                   ![existing].aiReasoning = r.overallReasoning,
                   ![existing].generatedAt = now]
             /\ gen' = [gen EXCEPT ![g] = [trace EXCEPT
                          !.result = [ret |-> "ok", rescheduleId |-> existing]]]
             /\ UNCHANGED scheduled
        ELSE /\ Len(rescheduleOptions) < MaxOptionSets
             /\ rescheduleOptions' = Append(rescheduleOptions,
                   [bookingId |-> b, conflictId |-> gen[g].conflictId,
                    suggestedDates |-> r.options, aiModel |-> r.model,
                    aiReasoning |-> r.overallReasoning,
                    generatedAt |-> now, status |-> "pending",
                    selectedOptionIndex |-> Undefined])
             /\ scheduled' = [scheduled EXCEPT ![<<"createRescheduleNotification", b>>] = @ + 1]
             /\ gen' = [gen EXCEPT ![g] = [trace EXCEPT
                          !.result = [ret |-> "ok",
                                      rescheduleId |-> Len(rescheduleOptions) + 1]]]
  /\ UNCHANGED <<now, flightBookings, weatherData, weatherConflicts, auditLog, chk, batch, reply, fetchJob>>

GenReturn(g) ==
  /\ gen[g].pc = "return"
  /\ gen' = [gen EXCEPT ![g] = IdleGen]
  /\ UNCHANGED <<now, flightBookings, weatherData, weatherConflicts, rescheduleOptions,
                 auditLog, scheduled, chk, batch, reply, fetchJob>>

\* ===== convex/reschedule.ts: accept / reject =====

\* the index taken as counting from 1
OptionAtOneBased(reschedule, index) ==
  IF index >= 1 /\ index <= Len(reschedule.suggestedDates)
  THEN index ELSE 0

\* an index past the end taken as the last option
OptionAtClamped(reschedule, index) ==
  IF index >= 0 /\ Len(reschedule.suggestedDates) > 0
  THEN IF index < Len(reschedule.suggestedDates)
       THEN index + 1 ELSE Len(reschedule.suggestedDates)
  ELSE 0

\* reschedule.suggestedDates[index], JavaScript indexing from 0
OptionAt(reschedule, index) ==
  IF index >= 0 /\ index < Len(reschedule.suggestedDates)
  THEN index + 1 ELSE 0

\* the accept that patches the booking and leaves the option set for later
acceptRescheduleOptionBookingOnly(rescheduleId, selectedOptionIndex) ==
  IF rescheduleId \notin 1..Len(rescheduleOptions)
  THEN Throw("acceptRescheduleOption", "Reschedule options not found")
  ELSE LET reschedule == rescheduleOptions[rescheduleId]
           k == OptionAt(reschedule, selectedOptionIndex)
       IN IF k = 0
          THEN Throw("acceptRescheduleOption", "Invalid option index")
          ELSE /\ Len(auditLog) < MaxAudit
               /\ flightBookings' = [flightBookings EXCEPT
                     ![reschedule.bookingId].scheduledDate = reschedule.suggestedDates[k].date,
                     ![reschedule.bookingId].status = "rescheduled"]
               /\ rescheduleOptions' = rescheduleOptions
               /\ auditLog' = Append(auditLog, [entityType |-> "reschedule",
                                                entityId |-> rescheduleId, action |-> "accepted"])
               /\ reply' = Answer("acceptRescheduleOption", "success",
                                  reschedule.suggestedDates[k].date)
               /\ UNCHANGED <<now, weatherData, weatherConflicts, scheduled, chk, batch, gen, fetchJob>>

acceptRescheduleOption(rescheduleId, selectedOptionIndex) ==
  IF rescheduleId \notin 1..Len(rescheduleOptions)
  THEN Throw("acceptRescheduleOption", "Reschedule options not found")
  ELSE LET reschedule == rescheduleOptions[rescheduleId]
           k == OptionAt(reschedule, selectedOptionIndex)
       IN IF k = 0
          THEN Throw("acceptRescheduleOption", "Invalid option index")
          ELSE /\ Len(auditLog) < MaxAudit
               /\ flightBookings' = [flightBookings EXCEPT
                     ![reschedule.bookingId].scheduledDate = reschedule.suggestedDates[k].date,
                     ![reschedule.bookingId].status = "rescheduled"]
               /\ rescheduleOptions' = [rescheduleOptions EXCEPT
                     ![rescheduleId].status = "accepted",
                     ![rescheduleId].selectedOptionIndex = selectedOptionIndex]
               /\ auditLog' = Append(auditLog, [entityType |-> "reschedule",
                                                entityId |-> rescheduleId, action |-> "accepted"])
               /\ reply' = Answer("acceptRescheduleOption", "success",
                                  reschedule.suggestedDates[k].date)
               /\ UNCHANGED <<now, weatherData, weatherConflicts, scheduled, chk, batch, gen, fetchJob>>

\* ctx.db.patch throws on a document that does not exist
rejectRescheduleOptions(rescheduleId) ==
  IF rescheduleId \notin 1..Len(rescheduleOptions)
  THEN Throw("rejectRescheduleOptions", "nonexistent document")
  ELSE /\ Len(auditLog) < MaxAudit
       /\ rescheduleOptions' = [rescheduleOptions EXCEPT ![rescheduleId].status = "rejected"]
       /\ auditLog' = Append(auditLog, [entityType |-> "reschedule",
                                        entityId |-> rescheduleId, action |-> "rejected"])
       /\ reply' = Answer("rejectRescheduleOptions", "success", 0)
       /\ UNCHANGED <<now, flightBookings, weatherData, weatherConflicts, scheduled,
                      chk, batch, gen, fetchJob>>

\* ----- the conflict lifecycle under concurrent manual checks -----
\* (within one tick no observation outlives its expiry, so the sweep has
\* nothing to delete here; it runs in the cron and sweep specifications)
NextCheck ==
  \/ Tick(MaxTime)
  \/ \E data \in Payloads : fetchWeatherData(1, data, now)
  \/ \E p \in ManualProcs, b \in BookingIds : checkBooking(p, b)
  \/ \E p \in ManualProcs : CheckGetBooking(p)
  \/ \E p \in ManualProcs : CheckGetWeather(p)
  \/ \E p \in ManualProcs : createOrUpdateConflict(p)
  \/ \E p \in ManualProcs : markBookingAsConflict(p)
  \/ \E p \in ManualProcs : resolveConflictsForBooking(p)
  \/ \E p \in ManualProcs : clearBookingConflict(p)
  \/ \E p \in ManualProcs : CheckReturn(p)
  \/ \E c \in 1..Len(weatherConflicts) : resolveConflict(c)

SpecCheck == Init /\ [][NextCheck]_vars

\* ----- the periodic jobs alone -----
NextCron ==
  \/ Tick(MaxSweepTime)
  \/ \E data \in Payloads : fetchWeatherData(1, data, now)
  \/ cleanupExpiredWeather
  \/ CheckGetBooking("cron")
  \/ CheckGetWeather("cron")
  \/ createOrUpdateConflict("cron")
  \/ markBookingAsConflict("cron")
  \/ resolveConflictsForBooking("cron")
  \/ clearBookingConflict("cron")
  \/ BatchStart
  \/ BatchCheck
  \/ BatchCount
  \/ BatchDone
  \/ BatchReturn

SpecCron == Init /\ [][NextCron]_vars

\* ----- the batch with checks that fail -----
NextBatch ==
  \/ \E data \in Payloads : fetchWeatherData(1, data, now)
  \/ CheckGetBooking("cron")
  \/ CheckGetWeather("cron")
  \/ createOrUpdateConflict("cron")
  \/ markBookingAsConflict("cron")
  \/ resolveConflictsForBooking("cron")
  \/ clearBookingConflict("cron")
  \/ CheckRaises("cron")
  \/ BatchStart
  \/ BatchCheck
  \/ BatchCount
  \/ BatchDone
  \/ BatchReturn

SpecBatch == Init /\ [][NextBatch]_vars

\* ----- one monitoring cycle: crons.interval starts both jobs, each once -----
NextCycle ==
  \/ FetchJobStart
  \/ FetchJobCached
  \/ \E data \in Payloads : FetchJobFetch(data)
  \/ FetchJobFails
  \/ FetchJobDone
  \/ CheckGetBooking("cron")
  \/ CheckGetWeather("cron")
  \/ createOrUpdateConflict("cron")
  \/ markBookingAsConflict("cron")
  \/ resolveConflictsForBooking("cron")
  \/ clearBookingConflict("cron")
  \/ BatchStart
  \/ BatchCheck
  \/ BatchCount
  \/ BatchDone

SpecCycle == Init /\ [][NextCycle]_vars

\* ----- two manual checks of the same booking, their steps interleaved -----
NextRace ==
  \/ Tick(MaxTime)
  \/ \E data \in Payloads : fetchWeatherData(1, data, now)
  \/ \E p \in ManualProcs : checkBooking(p, 1)
  \/ \E p \in ManualProcs :
        \/ CheckGetBooking(p)
        \/ CheckGetWeather(p)
        \/ createOrUpdateConflict(p)
        \/ markBookingAsConflict(p)
        \/ resolveConflictsForBooking(p)
        \/ clearBookingConflict(p)
        \/ CheckReturn(p)

SpecRace == Init /\ [][NextRace]_vars

\* ----- reschedule generation and the option lifecycle -----
StormPayload == Payload(800, 16, 90, 293, 211, "Thunderstorm")

StormWeather(t) ==
  [exists |-> TRUE, loc |-> 1, timestamp |-> t, expiresAt |-> t + WEATHER_CACHE_TTL_MS,
   visibility |-> metersToMiles(StormPayload.visibility),
   ceiling |-> estimateCeiling(StormPayload.clouds),
   windSpeed |-> mpsToKnots(StormPayload.windSpeed),
   hasThunderstorms |-> hasThunderstorms(StormPayload.weather),
   hasIcing |-> hasIcingConditions(kelvinToCelsius(StormPayload.temp), StormPayload.weather)]

ConflictOf(b, w) ==
  LET r == checkWeatherViolations(StormWeather(0), InitialBookings[b].trainingLevel)
  IN [bookingId |-> b, detectedAt |-> 0, weatherDataId |-> w,
      studentTrainingLevel |-> InitialBookings[b].trainingLevel, violatedConditions |-> r.violations,
      severity |-> r.severity, resolved |-> FALSE, resolvedAt |-> Undefined]

\* the state after a thunderstorm was fetched at tick 0 and both bookings
\* were checked against it
InitReschedule ==
  /\ now = 0
  /\ flightBookings = [b \in BookingIds |->
        [InitialBookings[b] EXCEPT !.status = "weather-conflict"]]
  /\ weatherData = <<StormWeather(0)>>
  /\ weatherConflicts = <<ConflictOf(1, 1), ConflictOf(2, 1)>>
  /\ rescheduleOptions = <<>>
  /\ auditLog = <<>>
  /\ scheduled = [f \in NotificationFns \X BookingIds |->
                    IF f[1] = "createConflictNotification" THEN 1 ELSE 0]
  /\ chk = [p \in CheckProcs |-> IdleCheck]
  /\ batch = IdleBatch
  /\ gen = [g \in GenProcs |-> IdleGen]
  /\ reply = NoReply
  /\ fetchJob = IdleFetchJob

\* a well-formed answer: two options, the second without a score
ValidContent ==
  [options |-> <<RawOption(60, "text", 90), RawOption(70, "text", Undefined)>>,
   overallReasoning |-> "text"]

\* the option lifecycle: concurrent generations (primary provider answering
\* well, or no provider configured), accept and reject
NextOptions ==
  \/ Tick(MaxTime)
  \/ \E g \in GenProcs, b \in BookingIds : GenStart(g, b, b)
  \/ \E g \in GenProcs, ok \in BOOLEAN :
        GenerateAndStore(g, [openai |-> ok, anthropic |-> FALSE], FALSE, ValidContent)
  \/ \E g \in GenProcs : GenReturn(g)
  \/ \E r \in 1..Len(rescheduleOptions), i \in 0..1 : acceptRescheduleOption(r, i)
  \/ \E r \in 1..Len(rescheduleOptions) : rejectRescheduleOptions(r)

SpecOptions == InitReschedule /\ [][NextOptions]_vars

\* accept and reject as their caller sees them: one generation at a time,
\* every index and every id a caller may pass
NextAccept ==
  \/ \E b \in BookingIds : GenStart("g1", b, b)
  \/ \E ok \in BOOLEAN :
        GenerateAndStore("g1", [openai |-> ok, anthropic |-> FALSE], FALSE, ValidContent)
  \/ GenReturn("g1")
  \/ \E r \in 1..MaxOptionSets, i \in (0 - 1)..3 : acceptRescheduleOption(r, i)
  \/ \E r \in 1..MaxOptionSets : rejectRescheduleOptions(r)

SpecAccept == InitReschedule /\ [][NextAccept]_vars

\* the booking mutations next to accept: every status and a past and a future
\* date a caller may pass
BookingDates == {0, 40}

NextBookings ==
  \/ Tick(MaxTime)
  \/ \E b \in BookingIds \cup {3}, st \in BookingStatuses : updateStatus(b, st)
  \/ \E b \in BookingIds \cup {3}, d \in BookingDates : bookings_reschedule(b, d)
  \/ \E b \in BookingIds \cup {3} : remove(b)
  \/ GenStart("g1", 1, 1)
  \/ GenerateAndStore("g1", [openai |-> TRUE, anthropic |-> FALSE], FALSE, ValidContent)
  \/ GenReturn("g1")
  \/ \E r \in 1..Len(rescheduleOptions) : acceptRescheduleOption(r, 0)

SpecBookings == InitReschedule /\ [][NextBookings]_vars

\* the provider chain: one generation at a time, every configuration of the
\* keys and every answer of the provider called
NextProviders ==
  \/ \E b \in BookingIds, c \in 1..MaxConflicts : GenStart("g1", b, c)
  \/ \E ok \in BOOLEAN, ak \in BOOLEAN, raise \in BOOLEAN, answer \in ProviderContents :
        GenerateAndStore("g1", [openai |-> ok, anthropic |-> ak], raise, answer)
  \/ GenReturn("g1")

SpecProviders == InitReschedule /\ [][NextProviders]_vars

\* ----- generation after the expired-weather sweep -----
NextSweep ==
  \/ Tick(MaxSweepTime)
  \/ fetchWeatherData(1, StormPayload, now)
  \/ cleanupExpiredWeather
  \/ checkBooking("m1", 1)
  \/ CheckGetBooking("m1")
  \/ CheckGetWeather("m1")
  \/ createOrUpdateConflict("m1")
  \/ markBookingAsConflict("m1")
  \/ CheckReturn("m1")
  \/ \E c \in 1..MaxConflicts : GenStart("g1", 1, c)
  \/ GenerateAndStore("g1", [openai |-> FALSE, anthropic |-> FALSE], FALSE, ValidContent)
  \/ GenReturn("g1")

SpecSweep == Init /\ [][NextSweep]_vars

\* ----- the rule evaluator on every kind of observation -----

\* storeWeatherData: inserts the document it is given
storeWeatherData(args) ==
  /\ Len(weatherData) < MaxWeather
  /\ weatherData' = Append(weatherData, args)
  /\ UNCHANGED <<now, flightBookings, weatherConflicts, rescheduleOptions,
                 auditLog, scheduled, chk, batch, gen, reply, fetchJob>>

Observation(loc, t, vis, ceiling, wind, ts, ice) ==
  [exists |-> TRUE, loc |-> loc, timestamp |-> t, expiresAt |-> t + WEATHER_CACHE_TTL_MS,
   visibility |-> vis, ceiling |-> ceiling, windSpeed |-> wind,
   hasThunderstorms |-> ts, hasIcing |-> ice]

\* values below, on and above each threshold of the three levels
Observations ==
  { Observation(1, 0, vis, ceiling, wind, ts, ice) :
      vis \in {0, 2, 3, 5}, ceiling \in {Undefined, 0, 500, 1000, 4000},
      wind \in {5, 10, 15, 16, 23, 25, 38}, ts \in BOOLEAN, ice \in BOOLEAN }

\* booking 1 belongs to a student of any training level
InitRules ==
  /\ now = 0
  /\ \E level \in TrainingLevels :
        flightBookings = [InitialBookings EXCEPT ![1].trainingLevel = level]
  /\ weatherData = <<>>
  /\ weatherConflicts = <<>>
  /\ rescheduleOptions = <<>>
  /\ auditLog = <<>>
  /\ scheduled = [f \in NotificationFns \X BookingIds |-> 0]
  /\ chk = [p \in CheckProcs |-> IdleCheck]
  /\ batch = IdleBatch
  /\ gen = [g \in GenProcs |-> IdleGen]
  /\ reply = NoReply
  /\ fetchJob = IdleFetchJob

\* one observation is stored, then booking 1 is checked against it
NextRules ==
  \/ weatherData = <<>> /\ \E args \in Observations : storeWeatherData(args)
  \/ weatherData # <<>> /\ checkBooking("m1", 1)
  \/ CheckGetBooking("m1")
  \/ CheckGetWeather("m1")
  \/ createOrUpdateConflict("m1")
  \/ markBookingAsConflict("m1")
  \/ resolveConflictsForBooking("m1")
  \/ clearBookingConflict("m1")
  \/ CheckReturn("m1")

SpecRules == InitRules /\ [][NextRules]_vars

\* ----- manual resolution next to the checks of one caller -----
NextResolve ==
  \/ \E data \in Payloads : fetchWeatherData(1, data, now)
  \/ \E b \in BookingIds : checkBooking("m1", b)
  \/ CheckGetBooking("m1")
  \/ CheckGetWeather("m1")
  \/ createOrUpdateConflict("m1")
  \/ markBookingAsConflict("m1")
  \/ resolveConflictsForBooking("m1")
  \/ clearBookingConflict("m1")
  \/ CheckReturn("m1")
  \/ \E c \in 1..MaxConflicts : resolveConflict(c)

SpecResolve == Init /\ [][NextResolve]_vars

\* ----- checks that find no data -----

\* booking 2 lost its student document; id 3 names no booking
InitNoData ==
  /\ now = 0
  /\ flightBookings = [InitialBookings EXCEPT ![2].trainingLevel = NoStudent]
  /\ weatherData = <<>>
  /\ weatherConflicts = <<>>
  /\ rescheduleOptions = <<>>
  /\ auditLog = <<>>
  /\ scheduled = [f \in NotificationFns \X BookingIds |-> 0]
  /\ chk = [p \in CheckProcs |-> IdleCheck]
  /\ batch = IdleBatch
  /\ gen = [g \in GenProcs |-> IdleGen]
  /\ reply = NoReply
  /\ fetchJob = IdleFetchJob

NextNoData ==
  \/ \E data \in Payloads : fetchWeatherData(1, data, now)
  \/ \E b \in BookingIds \cup {3} : checkBooking("m1", b)
  \/ CheckGetBooking("m1")
  \/ CheckGetWeather("m1")
  \/ createOrUpdateConflict("m1")
  \/ markBookingAsConflict("m1")
  \/ resolveConflictsForBooking("m1")
  \/ clearBookingConflict("m1")
  \/ CheckReturn("m1")

SpecNoData == InitNoData /\ [][NextNoData]_vars

\* ----- the weather cache: fetches for two locations, the sweep, lookups -----
Locations == {1, 2}
ClearPayload == Payload(10000, 3, 0, 293, 800, "Clear")

NextCache ==
  \/ Tick(MaxSweepTime)
  \/ \E loc \in Locations, data \in {ClearPayload, StormPayload}, dt \in {now - 1, now} :
        fetchWeatherData(loc, data, dt)
  \/ cleanupExpiredWeather
  \/ \E loc \in Locations : getCachedWeather(loc)

SpecCache == Init /\ [][NextCache]_vars

\* ----- one pass of the fetch job while time passes and weather.fetchWeather
\* is triggered by hand -----
NextFetchPass ==
  \/ Tick(MaxTime)
  \/ \E loc \in Locations, data \in Payloads : fetchWeatherData(loc, data, now)
  \/ FetchJobStart
  \/ FetchJobCached
  \/ \E data \in Payloads : FetchJobFetch(data)
  \/ FetchJobFails
  \/ FetchJobDone

SpecFetchPass == Init /\ [][NextFetchPass]_vars

\* ----- accept next to checks, generations and reject, all for booking 1 -----
NextAtomic ==
  \/ Tick(MaxTime)
  \/ \E data \in {ClearPayload, StormPayload} : fetchWeatherData(1, data, now)
  \/ updateStatus(1, "scheduled")
  \/ checkBooking("m1", 1)
  \/ CheckGetBooking("m1")
  \/ CheckGetWeather("m1")
  \/ createOrUpdateConflict("m1")
  \/ markBookingAsConflict("m1")
  \/ resolveConflictsForBooking("m1")
  \/ clearBookingConflict("m1")
  \/ CheckReturn("m1")
  \/ GenStart("g1", 1, 1)
  \/ GenerateAndStore("g1", [openai |-> TRUE, anthropic |-> FALSE], FALSE, ValidContent)
  \/ GenReturn("g1")
  \/ \E r \in 1..Len(rescheduleOptions), i \in 0..1 : acceptRescheduleOption(r, i)
  \/ \E r \in 1..Len(rescheduleOptions) : rejectRescheduleOptions(r)

SpecAtomic == InitReschedule /\ [][NextAtomic]_vars

\* the periodic jobs run again and again: the cron scheduler starts
\* checkAllActiveBookings every 30 minutes and every awaited step completes
CronJob ==
  \/ CheckGetBooking("cron")
  \/ CheckGetWeather("cron")
  \/ createOrUpdateConflict("cron")
  \/ markBookingAsConflict("cron")
  \/ resolveConflictsForBooking("cron")
  \/ clearBookingConflict("cron")
  \/ BatchStart
  \/ BatchCheck
  \/ BatchCount
  \/ BatchDone
  \/ BatchReturn

FairCron == SpecCron /\ WF_vars(CronJob)

\* ===== properties =====

HasUnresolved(b) == UnresolvedConflicts(weatherConflicts, b) # <<>>

\* the latest weather of the booking's departure location exists and
\* violates (or does not violate) the minimums of its training level
LatestViolates(b) ==
  LET w == getLatestWeatherForLocation(weatherData, flightBookings[b].departureLocation)
  IN w # 0 /\ Violations(weatherData[w], flightBookings[b].trainingLevel) # <<>>

LatestClean(b) ==
  LET w == getLatestWeatherForLocation(weatherData, flightBookings[b].departureLocation)
  IN w # 0 /\ Violations(weatherData[w], flightBookings[b].trainingLevel) = <<>>

InWindow(b) ==
  /\ flightBookings[b].scheduledDate >= now
  /\ flightBookings[b].scheduledDate <= now + WINDOW_48H

\* C1: in every reachable state each booking has at most one conflict with
\* resolved = false, also when two checks of the same booking interleave
C1_AtMostOneUnresolved ==
  \A b \in BookingIds :
     Cardinality({c \in 1..Len(weatherConflicts) :
                    weatherConflicts[c].bookingId = b /\ ~weatherConflicts[c].resolved}) <= 1

\* two concurrent checks of one booking both went through createOrUpdateConflict
\* and both report the same conflict
C1_Witness ==
  /\ chk["m1"].pc = "return" /\ chk["m2"].pc = "return"
  /\ chk["m1"].bookingId = chk["m2"].bookingId
  /\ chk["m1"].result.ret = "conflict" /\ chk["m2"].result.ret = "conflict"
  /\ chk["m1"].result.conflictId = chk["m2"].result.conflictId

\* C2: once an option set is accepted or rejected, a further accept or reject
\* fails and its status never changes again
C2_TerminalStatusIsFinal ==
  [][\A r \in 1..Len(rescheduleOptions) :
        rescheduleOptions[r].status \in {"accepted", "rejected"}
          => rescheduleOptions'[r].status = rescheduleOptions[r].status]_vars

\* C3: each booking has at most one pending option set, and a generation that
\* finds a pending set overwrites its options, provider, reasoning and
\* timestamp in place (same id, still pending, no new row)
C3_PendingUpsert ==
  [][/\ \A b \in BookingIds :
          Cardinality({r \in 1..Len(rescheduleOptions') :
                         /\ rescheduleOptions'[r].bookingId = b
                         /\ rescheduleOptions'[r].status = "pending"}) <= 1
     /\ \A g \in GenProcs :
          LET pending == {r \in 1..Len(rescheduleOptions) :
                            /\ rescheduleOptions[r].bookingId = gen[g].bookingId
                            /\ rescheduleOptions[r].status = "pending"}
          IN (/\ gen[g].pc = "provider" /\ gen'[g].pc = "return"
              /\ gen'[g].result.ret = "ok" /\ pending # {})
             => /\ Len(rescheduleOptions') = Len(rescheduleOptions)
                /\ gen'[g].result.rescheduleId \in pending
                /\ \A r \in 1..Len(rescheduleOptions) :
                     rescheduleOptions'[r] =
                       IF r \in pending
                       THEN [rescheduleOptions[r] EXCEPT
                               !.suggestedDates = gen'[g].aiResponse.options,
                               !.aiModel = gen'[g].aiResponse.model,
                               !.aiReasoning = gen'[g].aiResponse.overallReasoning,
                               !.generatedAt = now]
                       ELSE rescheduleOptions[r]]_vars

\* two concurrent generations for one booking wrote the same option set, the
\* later one at a later time
C3_Witness ==
  /\ gen["g1"].pc = "return" /\ gen["g2"].pc = "return"
  /\ gen["g1"].bookingId = gen["g2"].bookingId
  /\ gen["g1"].result.ret = "ok" /\ gen["g2"].result.ret = "ok"
  /\ gen["g1"].result.rescheduleId = gen["g2"].result.rescheduleId
  /\ gen["g1"].aiResponse.model # gen["g2"].aiResponse.model
  /\ rescheduleOptions[gen["g1"].result.rescheduleId].status = "pending"
  /\ rescheduleOptions[gen["g1"].result.rescheduleId].generatedAt = 1

\* C4: a check of a booking in weather-conflict with an unresolved conflict,
\* whose latest weather has no violations, ends with the conflict resolved and
\* the booking scheduled
C4_CleanCheckResolves ==
  [][\A p \in ManualProcs :
        LET b == chk[p].bookingId
        IN (/\ chk[p].pc = "getBooking" /\ chk'[p].pc = "return"
            /\ flightBookings[b].status = "weather-conflict"
            /\ HasUnresolved(b) /\ LatestClean(b))
           => /\ flightBookings'[b].status = "scheduled"
              /\ \A c \in 1..Len(weatherConflicts') :
                   weatherConflicts'[c].bookingId = b
                     => weatherConflicts'[c].resolved /\ weatherConflicts'[c].resolvedAt = now]_vars

\* C5: under the periodic jobs a booking of the 48-hour window in
\* weather-conflict with an unresolved conflict, whose latest weather stays
\* without violations, is eventually scheduled again with the conflict resolved
C5_EventuallyResolved ==
  \A b \in BookingIds :
     (/\ InWindow(b) /\ flightBookings[b].status = "weather-conflict"
      /\ HasUnresolved(b) /\ LatestClean(b))
       ~> (\/ ~LatestClean(b)
           \/ ~InWindow(b)
           \/ flightBookings[b].status = "scheduled" /\ ~HasUnresolved(b))

\* C6: a check of a booking in weather-conflict with an unresolved conflict,
\* whose latest weather still violates the minimums, reports hasConflict = true
\* with the id of that conflict, updated to the new evaluation and time
C6_RecheckUpdates ==
  [][\A p \in ManualProcs :
        LET b == chk[p].bookingId
            w == getLatestWeatherForLocation(weatherData, flightBookings[b].departureLocation)
            e == ExistingUnresolved(weatherConflicts, b)
        IN (/\ chk[p].pc = "getBooking" /\ chk'[p].pc = "return"
            /\ flightBookings[b].status = "weather-conflict"
            /\ HasUnresolved(b) /\ LatestViolates(b))
           => /\ chk'[p].result = [ret |-> "conflict", conflictId |-> e]
              /\ Len(weatherConflicts') = Len(weatherConflicts)
              /\ weatherConflicts'[e].weatherDataId = w
              /\ weatherConflicts'[e].detectedAt = now]_vars

\* C7: when the primary provider is configured and raises and the secondary is
\* configured, the secondary is called before the fallback is used
C7_SecondaryAfterPrimary ==
  \A g \in GenProcs :
     (/\ gen[g].pc = "return"
      /\ gen[g].keys.openai /\ gen[g].keys.anthropic
      /\ gen[g].raised # <<>> /\ gen[g].raised[1] = "openai")
       => \E i \in 1..Len(gen[g].called) : gen[g].called[i] = "anthropic"

\* C8: a generation for an existing booking and an existing conflict always
\* returns a persisted option set
C8_GenerationNeverFails ==
  \A g \in GenProcs :
     gen[g].pc = "return"
       => /\ gen[g].result.ret = "ok"
          /\ gen[g].result.rescheduleId \in 1..Len(rescheduleOptions)

\* C9: every persisted option set has at least one option and every option has
\* a valid date
C9_PersistedOptionsValid ==
  \A r \in 1..Len(rescheduleOptions) :
     /\ Len(rescheduleOptions[r].suggestedDates) >= 1
     /\ \A i \in 1..Len(rescheduleOptions[r].suggestedDates) :
          rescheduleOptions[r].suggestedDates[i].date # NaN

\* C10: when every provider called raised, or none is configured, the
\* generation returns and persists exactly three options of provider
\* fallback-rules: the next day at 09:00, two days later at 10:00 and three
\* days later at 08:00, with scores 75, 80 and 85
C10_FallbackOptions ==
  [][\A g \in GenProcs :
        (/\ gen[g].pc = "provider" /\ gen'[g].pc = "return"
         /\ gen'[g].called = gen'[g].raised)
        => LET day == gen[g].originalDate \div DAY
               id == gen'[g].result.rescheduleId
               expected ==
                 << [date |-> (day + 1) * DAY + 9 * HOUR, reasoning |-> "text", score |-> 75],
                    [date |-> (day + 2) * DAY + 10 * HOUR, reasoning |-> "text", score |-> 80],
                    [date |-> (day + 3) * DAY + 8 * HOUR, reasoning |-> "text", score |-> 85] >>
           IN /\ gen'[g].result.ret = "ok"
              /\ gen'[g].aiResponse.options = expected
              /\ id \in 1..Len(rescheduleOptions')
              /\ rescheduleOptions'[id].suggestedDates = expected
              /\ rescheduleOptions'[id].aiModel = "fallback-rules"
              /\ rescheduleOptions'[id].bookingId = gen[g].bookingId]_vars

\* the primary provider raised and the fallback's three options were persisted
\* for the booking of the second day
C10_Witness ==
  /\ gen["g1"].pc = "return"
  /\ gen["g1"].raised = <<"openai">>
  /\ gen["g1"].bookingId = 2
  /\ gen["g1"].result.ret = "ok"
  /\ rescheduleOptions[gen["g1"].result.rescheduleId].aiModel = "fallback-rules"
  /\ Len(rescheduleOptions[gen["g1"].result.rescheduleId].suggestedDates) = 3

\* C11: accepting a valid index i of a pending set moves the booking to
\* options[i].date with status rescheduled, marks the set accepted with
\* selectedOptionIndex = i, and answers that date as newDate
C11_AcceptApplies ==
  [][\A r \in 1..MaxOptionSets, i \in 0..3 :
        (/\ r <= Len(rescheduleOptions)
         /\ rescheduleOptions[r].status = "pending"
         /\ i < Len(rescheduleOptions[r].suggestedDates)
         /\ acceptRescheduleOption(r, i))
        => LET b == rescheduleOptions[r].bookingId
               date == rescheduleOptions[r].suggestedDates[i + 1].date
           IN /\ flightBookings'[b].scheduledDate = date
              /\ flightBookings'[b].status = "rescheduled"
              /\ rescheduleOptions'[r].status = "accepted"
              /\ rescheduleOptions'[r].selectedOptionIndex = i
              /\ reply' = Answer("acceptRescheduleOption", "success", date)]_vars

\* the second option of a provider's answer was accepted for booking 1
C11_Witness ==
  /\ reply = Answer("acceptRescheduleOption", "success", 70)
  /\ flightBookings[1].scheduledDate = 70
  /\ flightBookings[1].status = "rescheduled"
  /\ \E r \in 1..Len(rescheduleOptions) :
        /\ rescheduleOptions[r].bookingId = 1
        /\ rescheduleOptions[r].status = "accepted"
        /\ rescheduleOptions[r].selectedOptionIndex = 1

\* C12: accepting an index outside the stored options, or an option set that
\* does not exist, ends in an error and changes no booking, no option set and
\* not the audit log
C12_InvalidAcceptChangesNothing ==
  [][\A r \in 1..MaxOptionSets, i \in (0 - 1)..3 :
        (/\ \/ r > Len(rescheduleOptions)
            \/ i < 0
            \/ i >= Len(rescheduleOptions[r].suggestedDates)
         /\ acceptRescheduleOption(r, i))
        => /\ reply'.fn = "acceptRescheduleOption"
           /\ reply'.ret \in {"Reschedule options not found", "Invalid option index"}
           /\ UNCHANGED <<flightBookings, rescheduleOptions, auditLog>>]_vars

\* an index past the end of a pending set was refused
C12_Witness ==
  /\ reply = Answer("acceptRescheduleOption", "Invalid option index", 0)
  /\ \E r \in 1..Len(rescheduleOptions) : rescheduleOptions[r].status = "pending"
  /\ auditLog = <<>>

\* C13: rejecting a pending set only sets its status to rejected; a later
\* generation for the booking inserts a new pending set and leaves the
\* rejected one as it is
C13_RejectFrame ==
  [][/\ \A r \in 1..Len(rescheduleOptions) :
          (rescheduleOptions[r].status = "pending" /\ rejectRescheduleOptions(r))
          => /\ rescheduleOptions' =
                  [rescheduleOptions EXCEPT ![r].status = "rejected"]
             /\ UNCHANGED <<flightBookings, weatherConflicts>>
     /\ \A g \in GenProcs :
          (/\ gen[g].pc = "provider" /\ gen'[g].pc = "return"
           /\ gen'[g].result.ret = "ok")
          => /\ \A r \in 1..Len(rescheduleOptions) :
                   rescheduleOptions[r].status = "rejected"
                     => rescheduleOptions'[r] = rescheduleOptions[r]
             /\ (\A r \in 1..Len(rescheduleOptions) :
                    rescheduleOptions[r].bookingId = gen[g].bookingId
                      => rescheduleOptions[r].status # "pending")
                => /\ Len(rescheduleOptions') = Len(rescheduleOptions) + 1
                   /\ gen'[g].result.rescheduleId = Len(rescheduleOptions')
                   /\ rescheduleOptions'[Len(rescheduleOptions')].status = "pending"
                   /\ rescheduleOptions'[Len(rescheduleOptions')].bookingId
                        = gen[g].bookingId]_vars

\* a set was rejected and a later generation made a second, pending set for
\* the same booking
C13_Witness ==
  /\ Len(rescheduleOptions) = 2
  /\ rescheduleOptions[1].bookingId = rescheduleOptions[2].bookingId
  /\ rescheduleOptions[1].status = "rejected"
  /\ rescheduleOptions[2].status = "pending"
  /\ rescheduleOptions[2].generatedAt >= rescheduleOptions[1].generatedAt
  /\ flightBookings[rescheduleOptions[1].bookingId].status = "weather-conflict"

\* C14: an option set has selectedOptionIndex set exactly when its status is
\* accepted, and then the index is within its stored options
C14_IndexIffAccepted ==
  \A r \in 1..Len(rescheduleOptions) :
     /\ rescheduleOptions[r].selectedOptionIndex # Undefined
          <=> rescheduleOptions[r].status = "accepted"
     /\ rescheduleOptions[r].status = "accepted"
          => /\ rescheduleOptions[r].selectedOptionIndex >= 0
             /\ rescheduleOptions[r].selectedOptionIndex
                  < Len(rescheduleOptions[r].suggestedDates)

\* C15: getCachedWeather answers, among the observations of exactly that
\* location whose expiresAt is strictly greater than now, one with the greatest
\* timestamp, and null when there is none
C15_CachedWeatherValid ==
  \A loc \in Locations :
     LET valid == {i \in 1..Len(weatherData) :
                     /\ weatherData[i].exists /\ weatherData[i].loc = loc
                     /\ weatherData[i].expiresAt > now}
         r == CachedWeather(weatherData, loc, now)
     IN /\ valid = {} <=> r = 0
        /\ r # 0 => /\ r \in valid
                     /\ \A i \in valid : weatherData[i].timestamp <= weatherData[r].timestamp
        /\ (reply.fn = "getCachedWeather" /\ reply.loc = loc /\ reply.at = now
             /\ reply.doc # 0)
           => /\ reply.doc \in 1..Len(weatherData)
              /\ weatherData[reply.doc].loc = loc
              /\ weatherData[reply.doc].expiresAt > now

\* an observation fetched at tick 0 is still stored at tick 1, when it expires,
\* and the lookup made at tick 1 answered null
C15_Witness ==
  /\ now = 1
  /\ reply = QueryAnswer("getCachedWeather", 1, 0, 1)
  /\ \E i \in 1..Len(weatherData) :
        /\ weatherData[i].exists /\ weatherData[i].loc = 1
        /\ weatherData[i].expiresAt = 1

\* C16: a check never evaluates, and never records in a conflict, an
\* observation whose expiresAt is not strictly greater than the current time;
\* with only expired observations it reports no data
C16_NoExpiredWeatherEvaluated ==
  [][\A p \in CheckProcs :
        (chk[p].pc = "getWeather" /\ chk'[p].pc # "getWeather")
        => LET loc == flightBookings[chk[p].bookingId].departureLocation
           IN IF CachedWeather(weatherData, loc, now) = 0
              THEN chk'[p].pc = "return" /\ chk'[p].result.ret = "null"
              ELSE /\ chk'[p].pc = "upsert"
                   /\ weatherData[chk'[p].weatherId].expiresAt > now]_vars

\* C17: storing an observation adds exactly one row and changes no other;
\* no step modifies a stored observation, and only the expiry sweep removes one
C17_ObservationsImmutable ==
  [][/\ Len(weatherData') \in {Len(weatherData), Len(weatherData) + 1}
     /\ \A i \in 1..Len(weatherData) :
          \/ weatherData'[i] = weatherData[i]
          \/ /\ cleanupExpiredWeather
             /\ weatherData[i].expiresAt < now
             /\ ~weatherData'[i].exists
     /\ \A loc \in Locations, data \in Payloads, dt \in {now - 1, now} :
          fetchWeatherData(loc, data, dt)
            => /\ Len(weatherData') = Len(weatherData) + 1
               /\ weatherData'[Len(weatherData')].exists
               /\ weatherData'[Len(weatherData')].loc = loc
               /\ weatherData'[Len(weatherData')].timestamp = dt]_vars

\* two observations of one location are stored side by side
C17_Witness ==
  /\ Len(weatherData) = 2
  /\ weatherData[1].exists /\ weatherData[2].exists
  /\ weatherData[1].loc = weatherData[2].loc
  /\ weatherData[1].hasThunderstorms # weatherData[2].hasThunderstorms

\* the rules, in the order of evaluation, under the names a violation carries
RuleOrder == <<"visibility", "ceiling", "clouds", "wind", "thunderstorms", "icing">>

\* C18: the violations reported are exactly those of the six rules, each at
\* most once, in the order visibility, ceiling / clear skies, wind,
\* thunderstorm, icing
C18_ExactViolationsInOrder ==
  [][\A p \in CheckProcs :
        (chk[p].pc = "getWeather" /\ chk'[p].pc = "upsert")
        => LET w == weatherData[chk'[p].weatherId]
               m == WEATHER_MINIMUMS[flightBookings[chk[p].bookingId].trainingLevel]
               Applies(rule) ==
                 CASE rule = "visibility" ->
                        m.minVisibility # Undefined /\ w.visibility < m.minVisibility
                   [] rule = "ceiling" ->
                        /\ m.minCeiling # Undefined
                        /\ \/ w.ceiling = Undefined /\ ~m.requiresClearSkies
                           \/ w.ceiling # Undefined /\ w.ceiling < m.minCeiling
                   [] rule = "clouds" -> m.requiresClearSkies /\ w.ceiling # Undefined
                   [] rule = "wind" -> w.windSpeed > m.maxWindSpeed
                   [] rule = "thunderstorms" -> w.hasThunderstorms
                   [] rule = "icing" -> w.hasIcing
               v == chk'[p].violations
               reported == [i \in 1..Len(v) |->
                              IF v[i].rule = "ceiling-unavailable" THEN "ceiling"
                              ELSE v[i].rule]
           IN reported = SelectSeq(RuleOrder, Applies)]_vars

\* a private pilot's check found five violations, from visibility to icing
C18_Witness ==
  /\ chk["m1"].pc = "upsert"
  /\ flightBookings[1].trainingLevel = "private-pilot"
  /\ Len(chk["m1"].violations) = 5
  /\ chk["m1"].violations[1].rule = "visibility"
  /\ chk["m1"].violations[2].rule = "ceiling-unavailable"
  /\ chk["m1"].violations[5].rule = "icing"

\* the observation sits on every numeric threshold of the level: visibility
\* and ceiling equal to the minimums that are defined, wind equal to the
\* maximum, no thunderstorm, no icing
OnNumericThresholds(w, trainingLevel) ==
  LET m == WEATHER_MINIMUMS[trainingLevel]
  IN /\ m.minVisibility # Undefined => w.visibility = m.minVisibility
     /\ m.minCeiling # Undefined => w.ceiling = m.minCeiling
     /\ w.windSpeed = m.maxWindSpeed
     /\ ~w.hasThunderstorms /\ ~w.hasIcing

\* ... and it has no ceiling value where the level requires clear skies
OnThresholds(w, trainingLevel) ==
  /\ OnNumericThresholds(w, trainingLevel)
  /\ WEATHER_MINIMUMS[trainingLevel].requiresClearSkies => w.ceiling = Undefined

C20_SeverityRule ==
  [][\A p \in CheckProcs :
        (chk[p].pc = "getWeather" /\ chk'[p].pc = "upsert")
        => LET w == weatherData[chk'[p].weatherId]
               m == WEATHER_MINIMUMS[flightBookings[chk[p].bookingId].trainingLevel]
           IN /\ w.hasThunderstorms => chk'[p].severity = "high"
              /\ chk'[p].severity =
                   IF \/ w.hasThunderstorms
                      \/ w.hasIcing
                      \/ 2 * w.windSpeed > 3 * m.maxWindSpeed
                   THEN "high"
                   ELSE IF Len(chk'[p].violations) >= 2 THEN "medium" ELSE "low"]_vars

\* a student's check at exactly 1.5 times the maximum wind, with low
\* visibility too, is of medium severity
C20_Witness ==
  /\ chk["m1"].pc = "upsert"
  /\ flightBookings[1].trainingLevel = "student-pilot"
  /\ weatherData[chk["m1"].weatherId].windSpeed = 15
  /\ Len(chk["m1"].violations) = 2
  /\ chk["m1"].severity = "medium"

\* C21: for an instrument-rated student an observation with visibility below
\* 1 mile is reported as a visibility violation
C21_InstrumentVisibilityMinimum ==
  [][\A p \in CheckProcs :
        (/\ chk[p].pc = "getWeather" /\ chk'[p].pc = "upsert"
         /\ flightBookings[chk[p].bookingId].trainingLevel = "instrument-rated"
         /\ weatherData[chk'[p].weatherId].visibility < 1)
        => \E i \in 1..Len(chk'[p].violations) :
              chk'[p].violations[i].rule = "visibility"]_vars

\* C22: a check of a booking that does not exist, whose student does not
\* exist or whose location has no observation reports no data without raising
\* and changes no conflict, booking or notification; when it has returned the
\* process is as it was before, so the next check is a first check
C22_NoDataIsNoOp ==
  [][\A p \in CheckProcs :
        /\ (/\ \/ /\ chk[p].pc = "getBooking"
                   /\ \/ chk[p].bookingId \notin BookingIds
                      \/ flightBookings[chk[p].bookingId].trainingLevel = NoStudent
                \/ /\ chk[p].pc = "getWeather"
                   /\ getLatestWeatherForLocation(weatherData,
                         flightBookings[chk[p].bookingId].departureLocation) = 0
             /\ chk'[p] # chk[p])
            => /\ chk'[p].pc = "return"
               /\ chk'[p].result = [ret |-> "null", conflictId |-> 0]
               /\ UNCHANGED <<flightBookings, weatherData, weatherConflicts, scheduled>>
        /\ (chk[p].pc = "return" /\ chk[p].result.ret = "null" /\ chk'[p] # chk[p])
            => /\ chk'[p] = IdleCheck
               /\ UNCHANGED <<flightBookings, weatherData, weatherConflicts, scheduled>>]_vars

\* the check of the booking without a student reported no data although an
\* observation of its location is stored
C22_Witness ==
  /\ chk["m1"].pc = "return"
  /\ chk["m1"].bookingId = 2
  /\ chk["m1"].result.ret = "null"
  /\ getLatestWeatherForLocation(weatherData, 1) # 0
  /\ weatherConflicts = <<>>

\* C23: resolveConflict on an existing conflict sets resolved and resolvedAt
\* whatever the weather is and leaves the bookings and every other conflict
\* unchanged; on a missing conflict it ends in an error and writes nothing
C23_ManualResolveFrame ==
  [][\A c \in 1..MaxConflicts :
        resolveConflict(c)
        => IF c <= Len(weatherConflicts)
           THEN /\ weatherConflicts' = [weatherConflicts EXCEPT ![c].resolved = TRUE,
                                                                ![c].resolvedAt = now]
                /\ reply' = Answer("resolveConflict", "success", 0)
                /\ UNCHANGED flightBookings
           ELSE /\ reply' = Answer("resolveConflict", "Conflict not found", 0)
                /\ UNCHANGED <<flightBookings, weatherConflicts, auditLog>>]_vars

\* a conflict was resolved by hand while the latest weather still violates
\* the minimums of its booking, which stays in weather-conflict
C23_Witness ==
  /\ reply = Answer("resolveConflict", "success", 0)
  /\ Len(weatherConflicts) = 1
  /\ weatherConflicts[1].resolved
  /\ LatestViolates(weatherConflicts[1].bookingId)
  /\ flightBookings[weatherConflicts[1].bookingId].status = "weather-conflict"

\* the number of times a notification function was dispatched for the bookings
Dispatched(fn) ==
  scheduled[<<fn, 1>>] + scheduled[<<fn, 2>>]

\* C24: the conflict notification is dispatched once for each conflict row
\* inserted and never for an update: per booking, as many notifications as rows
C24_NotifyOnCreateOnly ==
  /\ \A b \in BookingIds :
        scheduled[<<"createConflictNotification", b>>]
          = Cardinality({c \in 1..Len(weatherConflicts) : weatherConflicts[c].bookingId = b})
  /\ Dispatched("createConflictNotification") = Len(weatherConflicts)

\* the only conflict was updated at tick 1 to a second observation by a check
\* that ran next to the one that created it, and one notification was dispatched
C24_Witness ==
  /\ Len(weatherConflicts) = 1
  /\ ~weatherConflicts[1].resolved
  /\ weatherConflicts[1].weatherDataId = 2
  /\ weatherConflicts[1].detectedAt = 1
  /\ weatherData[1].timestamp = 0
  /\ chk["m1"].pc = "return" /\ chk["m2"].pc = "return"
  /\ chk["m1"].result = [ret |-> "conflict", conflictId |-> 1]
  /\ chk["m2"].result = [ret |-> "conflict", conflictId |-> 1]
  /\ Dispatched("createConflictNotification") = 1

\* the option sets of a booking
OptionSetsOf(table, b) ==
  {r \in 1..Len(table) : table[r].bookingId = b}

\* C25: the reschedule-suggested notification is dispatched exactly when
\* storeRescheduleOptions inserts a set and never when it overwrites a pending
\* one: in every step a booking gets one notification iff it gets one more set
C25_NotifyOnInsertOnly ==
  [][\A b \in BookingIds :
       scheduled'[<<"createRescheduleNotification", b>>]
           - scheduled[<<"createRescheduleNotification", b>>]
         = Cardinality(OptionSetsOf(rescheduleOptions', b))
           - Cardinality(OptionSetsOf(rescheduleOptions, b))]_vars

\* two generations for booking 1 have both stored into the one pending set, the
\* later of them at tick 1, and one notification was dispatched
C25_Witness ==
  /\ Len(rescheduleOptions) = 1
  /\ rescheduleOptions[1].status = "pending"
  /\ rescheduleOptions[1].generatedAt = 1
  /\ \A g \in GenProcs :
        /\ gen[g].pc = "return"
        /\ gen[g].bookingId = 1
        /\ gen[g].result = [ret |-> "ok", rescheduleId |-> 1]
  /\ scheduled[<<"createRescheduleNotification", 1>>] = 1
  /\ Dispatched("createRescheduleNotification") = 1

\* bookings of the batch counted so far
Counted(results) ==
  results.conflicts + results.resolved + results.errors

\* C26: in checkAllActiveBookings a check that raises is counted in errors and
\* the loop goes on to the next booking; total is the number of bookings
\* selected, every counting step adds to at most one of conflicts, resolved and
\* errors, and the batch returns only after every selected booking was checked
C26_BatchCountsErrorsAndContinues ==
  /\ [](batch.pc # "idle" =>
          /\ batch.results.total = Len(batch.list)
          /\ Counted(batch.results) <= batch.i - 1
          /\ batch.i - 1 <= batch.results.total
          /\ batch.pc = "done" => batch.i = Len(batch.list) + 1)
  /\ [][/\ batch.pc = "loop" /\ batch'.pc = "done" => batch.i = Len(batch.list) + 1
        /\ batch.pc = "loop" /\ batch'.i = batch.i + 1 =>
              /\ Counted(batch'.results) - Counted(batch.results) \in {0, 1}
              /\ batch'.results.conflicts >= batch.results.conflicts
              /\ batch'.results.resolved >= batch.results.resolved
              /\ batch'.results.errors >= batch.results.errors
              /\ batch'.results.total = batch.results.total
              /\ chk["cron"].result.ret = "error" =>
                    /\ batch'.results.errors = batch.results.errors + 1
                    /\ batch'.pc = "loop"]_vars

\* the check of booking 1, first of the two selected, raised; booking 2 was
\* checked after it and found in conflict; the batch is about to return
C26_Witness ==
  /\ batch.pc = "done"
  /\ batch.list = <<1, 2>>
  /\ batch.results = [total |-> 2, conflicts |-> 1, resolved |-> 0, errors |-> 1]
  /\ flightBookings[1].status = "scheduled"
  /\ flightBookings[2].status = "weather-conflict"
  /\ Len(weatherConflicts) = 1
  /\ weatherConflicts[1].bookingId = 2

\* C27: after the monitoring cycle has created a conflict for a booking, a
\* pending option set for the booking eventually exists (or the conflict has
\* been resolved in the meantime), with the periodic jobs the only ones acting
C27_ConflictTriggersGeneration ==
  \A b \in BookingIds :
     (HasUnresolved(b) /\ flightBookings[b].status = "weather-conflict")
       ~> (\/ ExistingPending(rescheduleOptions, b) # 0
           \/ ~HasUnresolved(b))

\* the fetch job of the cycle is past booking b: it has looked up or fetched
\* the weather of b's departure location, or has returned
FetchedFor(b) ==
  /\ fetchJob.pc # "idle"
  /\ \A k \in 1..Len(fetchJob.list) : fetchJob.list[k] = b => k < fetchJob.i

\* C28: in a monitoring cycle the cron check evaluates a booking only after the
\* fetch job of the cycle has fetched and stored the weather for it
C28_CheckAfterFetch ==
  [][\A b \in BookingIds :
       (CheckGetWeather("cron") /\ chk["cron"].bookingId = b) => FetchedFor(b)]_vars

\* no check of booking b is between its first read and its return
NoCheckInProgress(b) ==
  \A p \in CheckProcs : chk[p].bookingId = b => chk[p].pc \in {"idle", "return"}

\* C29: two concurrent checks of a booking leave what some sequential execution
\* of them leaves; a check run alone ends with the booking in weather-conflict
\* exactly if it has an unresolved conflict, so this holds once both returned
C29_ConcurrentChecksSerializable ==
  NoCheckInProgress(1) =>
     (flightBookings[1].status = "weather-conflict" <=> HasUnresolved(1))

\* C30: with no check of it in progress, a booking in weather-conflict has an
\* unresolved conflict, whatever checks and manual resolutions came before
C30_WeatherConflictHasUnresolved ==
  \A b \in BookingIds :
     (NoCheckInProgress(b) /\ flightBookings[b].status = "weather-conflict")
       => \E c \in 1..Len(weatherConflicts) :
             weatherConflicts[c].bookingId = b /\ ~weatherConflicts[c].resolved

\* C31: with no check of its booking in progress, every unresolved conflict
\* belongs to a booking in weather-conflict; none is left once the booking has
\* been rescheduled through acceptRescheduleOption
C31_UnresolvedImpliesWeatherConflict ==
  \A c \in 1..Len(weatherConflicts) :
     (~weatherConflicts[c].resolved /\ NoCheckInProgress(weatherConflicts[c].bookingId))
       => flightBookings[weatherConflicts[c].bookingId].status = "weather-conflict"

\* C32: the observation an unresolved conflict refers to is still stored,
\* however often cleanupExpiredWeather has run
C32_ConflictWeatherExists ==
  \A c \in 1..Len(weatherConflicts) :
     ~weatherConflicts[c].resolved
       => /\ weatherConflicts[c].weatherDataId \in 1..Len(weatherData)
          /\ weatherData[weatherConflicts[c].weatherDataId].exists

Terminal(status) == status \in {"cancelled", "completed"}

\* C33: once a booking is cancelled or completed, no operation changes its
\* status or its scheduledDate
C33_TerminalBookingIsFinal ==
  [][\A b \in BookingIds :
       Terminal(flightBookings[b].status) =>
          /\ flightBookings'[b].status = flightBookings[b].status
          /\ flightBookings'[b].scheduledDate = flightBookings[b].scheduledDate]_vars

\* the location the fetch job is working on
FetchJobLocation ==
  flightBookings[fetchJob.list[fetchJob.i]].departureLocation

\* C34: the fetch job goes on to an external fetch only when getCachedWeather
\* has just returned none for the location; two observations it stored for one
\* location in a pass mean that the first had expired when the second was
\* fetched; a failed fetch moves on to the next booking, and the job returns
\* only after the last booking
C34_FetchOnlyOnCacheMiss ==
  /\ [](\A r1, r2 \in 1..Len(fetchJob.results) :
          (r1 < r2 /\ weatherData[fetchJob.results[r1].weatherId].loc
                       = weatherData[fetchJob.results[r2].weatherId].loc)
            => weatherData[fetchJob.results[r1].weatherId].expiresAt
                 <= weatherData[fetchJob.results[r2].weatherId].timestamp)
  /\ [](fetchJob.pc = "done" => fetchJob.i = Len(fetchJob.list) + 1)
  /\ [][/\ (fetchJob.pc # "fetch" /\ fetchJob'.pc = "fetch") =>
              CachedWeather(weatherData, FetchJobLocation, now) = 0
        /\ (fetchJob.pc = "cache" /\ fetchJob.i <= Len(fetchJob.list)
               /\ CachedWeather(weatherData, FetchJobLocation, now) # 0
               /\ fetchJob' # fetchJob) =>
              (fetchJob'.pc = "cache" /\ fetchJob'.i = fetchJob.i + 1
                 /\ weatherData' = weatherData)
        /\ (fetchJob.pc = "fetch" /\ weatherData' = weatherData
               /\ fetchJob' # fetchJob) =>
              (fetchJob'.pc = "cache" /\ fetchJob'.i = fetchJob.i + 1)]_vars

\* the fetch for booking 1 failed; the job went on to booking 2 of the same
\* location, found nothing cached and fetched; the job has returned
C34_Witness ==
  /\ fetchJob.pc = "done"
  /\ fetchJob.list = <<1, 2>>
  /\ fetchJob.results = <<[bookingId |-> 2, weatherId |-> 1]>>
  /\ Len(weatherData) = 1

\* the observation has no ceiling value (clear skies), no thunderstorm and no
\* icing, and its visibility and wind are within the limits of the level
ClearSkyWithinLimits(weather, trainingLevel) ==
  LET m == WEATHER_MINIMUMS[trainingLevel]
  IN /\ weather.ceiling = Undefined
     /\ ~weather.hasThunderstorms /\ ~weather.hasIcing
     /\ weather.windSpeed <= m.maxWindSpeed
     /\ Truthy(m.minVisibility) => weather.visibility >= m.minVisibility

\* C35: an observation fetchWeatherData derived from a clear-sky payload, with
\* visibility and wind within the limits, has no violation for any level
C35_ClearSkyNoViolation ==
  \A w \in 1..Len(weatherData), level \in TrainingLevels :
     (weatherData[w].exists /\ ClearSkyWithinLimits(weatherData[w], level))
       => checkWeatherViolations(weatherData[w], level).violations = <<>>

\* the date of the option an accepted set was accepted with
ChosenDate(reschedule) ==
  reschedule.suggestedDates[reschedule.selectedOptionIndex + 1].date

\* set r is accepted by this step (for the first time or with another option)
BecomesAccepted(r) ==
  /\ rescheduleOptions'[r].status = "accepted"
  /\ \/ rescheduleOptions[r].status # "accepted"
     \/ rescheduleOptions'[r].selectedOptionIndex # rescheduleOptions[r].selectedOptionIndex

\* C36: acceptRescheduleOption is one atomic step: the step that marks a set
\* accepted gives the booking the chosen date and status rescheduled, and the
\* step that gives a booking a new date or makes it rescheduled leaves a set of
\* the booking accepted with that date, whatever runs in between
C36_AcceptIsAtomic ==
  [][/\ \A r \in 1..Len(rescheduleOptions) :
          BecomesAccepted(r) =>
             /\ flightBookings'[rescheduleOptions[r].bookingId].status = "rescheduled"
             /\ flightBookings'[rescheduleOptions[r].bookingId].scheduledDate
                   = ChosenDate(rescheduleOptions'[r])
     /\ \A b \in BookingIds :
          (\/ flightBookings'[b].scheduledDate # flightBookings[b].scheduledDate
           \/ /\ flightBookings'[b].status = "rescheduled"
              /\ flightBookings[b].status # "rescheduled")
            => \E r \in 1..Len(rescheduleOptions) :
                  /\ rescheduleOptions'[r].bookingId = b
                  /\ rescheduleOptions'[r].status = "accepted"
                  /\ ChosenDate(rescheduleOptions'[r]) = flightBookings'[b].scheduledDate]_vars

\* a check of booking 1 is past its read of the booking, which has meanwhile
\* been rescheduled to the second option of its accepted set
C36_Witness ==
  /\ chk["m1"].bookingId = 1
  /\ chk["m1"].pc \in {"getWeather", "upsert", "mark"}
  /\ Len(rescheduleOptions) >= 1
  /\ rescheduleOptions[1].bookingId = 1
  /\ rescheduleOptions[1].status = "accepted"
  /\ rescheduleOptions[1].selectedOptionIndex = 1
  /\ flightBookings[1].status = "rescheduled"
  /\ flightBookings[1].scheduledDate = 70
  /\ reply = Answer("acceptRescheduleOption", "success", 70)

\* what a detection stored in a conflict
Detection(conflict) ==
  [bookingId |-> conflict.bookingId, weatherDataId |-> conflict.weatherDataId,
   violatedConditions |-> conflict.violatedConditions, severity |-> conflict.severity]

\* C37: a resolved conflict stays resolved and keeps its weather reference,
\* violations and severity; a detection for a booking whose conflicts are all
\* resolved inserts a new, unresolved row
C37_ResolvedIsMonotonic ==
  [][/\ Len(weatherConflicts') >= Len(weatherConflicts)
     /\ \A c \in 1..Len(weatherConflicts) :
          weatherConflicts[c].resolved =>
             /\ weatherConflicts'[c].resolved
             /\ Detection(weatherConflicts'[c]) = Detection(weatherConflicts[c])
     /\ \A p \in ManualProcs :
          (/\ chk[p].pc = "upsert" /\ chk'[p].pc = "mark"
           /\ Len(chk[p].violations) > 0
           /\ ~HasUnresolved(chk[p].bookingId))
            => /\ Len(weatherConflicts') = Len(weatherConflicts) + 1
               /\ ~weatherConflicts'[Len(weatherConflicts')].resolved
               /\ weatherConflicts'[Len(weatherConflicts')].bookingId = chk[p].bookingId
               /\ chk'[p].result.conflictId = Len(weatherConflicts')]_vars

\* booking 1 has a resolved conflict and, from a later detection, a second,
\* unresolved one that refers to another observation
C37_Witness ==
  /\ Len(weatherConflicts) = 2
  /\ weatherConflicts[1].bookingId = 1 /\ weatherConflicts[2].bookingId = 1
  /\ weatherConflicts[1].resolved /\ ~weatherConflicts[2].resolved
  /\ weatherConflicts[1].weatherDataId # weatherConflicts[2].weatherDataId

\* C38: cleanupExpiredWeather deletes only observations whose expiresAt is
\* strictly less than now, and for every location getCachedWeather returns at
\* that instant the same document after the sweep as before it
C38_SweepKeepsCache ==
  [][cleanupExpiredWeather =>
       /\ Len(weatherData') = Len(weatherData)
       /\ \A i \in 1..Len(weatherData) :
            IF weatherData[i].exists /\ weatherData[i].expiresAt < now
            THEN ~weatherData'[i].exists
            ELSE weatherData'[i] = weatherData[i]
       /\ \A loc \in Locations :
            CachedWeather(weatherData', loc, now) = CachedWeather(weatherData, loc, now)]_vars

\* at tick 2 the observation that expired at tick 1 has been swept and the one
\* stored at tick 1, which expires at this very tick, is still there
C38_Witness ==
  /\ now = 2
  /\ Len(weatherData) = 2
  /\ ~weatherData[1].exists
  /\ weatherData[2].exists /\ weatherData[2].expiresAt = 2

\* C39: checkWeatherViolations never returns severity high or medium with an
\* empty violation list, whatever the observation and the level, and every
\* stored conflict has at least one violation
C39_SeverityImpliesViolation ==
  /\ \A w \in 1..Len(weatherData), level \in TrainingLevels :
        weatherData[w].exists =>
           LET r == checkWeatherViolations(weatherData[w], level)
           IN r.severity \in {"high", "medium"} => Len(r.violations) >= 1
  /\ \A p \in CheckProcs :
        (chk[p].pc \in {"upsert", "mark"} /\ chk[p].severity # "low")
          => Len(chk[p].violations) >= 1
  /\ \A c \in 1..Len(weatherConflicts) :
        Len(weatherConflicts[c].violatedConditions) >= 1

\* an instrument-rated pilot's conflict of severity high whose only violation
\* is the thunderstorm
C39_Witness ==
  /\ flightBookings[1].trainingLevel = "instrument-rated"
  /\ Len(weatherConflicts) = 1
  /\ weatherConflicts[1].severity = "high"
  /\ Len(weatherConflicts[1].violatedConditions) = 1
  /\ weatherConflicts[1].violatedConditions[1].rule = "thunderstorms"
  /\ weatherData[weatherConflicts[1].weatherDataId].windSpeed = 5

\* C40: for each option a provider returned, the stored score is the
\* provider's score whenever it supplied one, 0 included, and 80 only when the
\* provider omitted it
C40_StoredScoreIsProviderScore ==
  [][\A ok \in BOOLEAN, ak \in BOOLEAN, answer \in ProviderContents :
       LET keys == [openai |-> ok, anthropic |-> ak]
       IN (/\ GenerateAndStore("g1", keys, FALSE, answer)
           /\ ProviderChain(keys) # <<>>
           /\ gen'["g1"].result.ret = "ok")
            => LET stored == rescheduleOptions'[gen'["g1"].result.rescheduleId].suggestedDates
               IN /\ Len(stored) = Len(answer.options)
                  /\ \A i \in 1..Len(stored) :
                       stored[i].score = IF answer.options[i].score # Undefined
                                         THEN answer.options[i].score ELSE 80]_vars

====
